---- MODULE Spec2Model ----
(***************************************************************************)
(* Verification model of the functional-commitment protocol stack:         *)
(*   - the additively homomorphic commitment layer                         *)
(*     (zero_over_k/src/commitment.rs),                                    *)
(*   - the virtual oracles ProductCheckVO and NewVO                        *)
(*     (proof_of_function_relation/src/virtual_oracle),                    *)
(*   - the proofs of function relation NonZeroOverK, DLComparison and      *)
(*     TStrictlyLowerTriangular (proof_of_function_relation/src).          *)
(* The functions are pure: every behaviour draws the inputs of one call,   *)
(* applies the function and keeps the inputs and the value it returned.    *)
(* The scalar field F is the prime field of P elements; the commitment     *)
(* group is the additive group of the same order.                          *)
(***************************************************************************)
EXTENDS Integers, Sequences, FiniteSets, TLC

VARIABLES
    pc,              \* "idle" before the call, "done" after it
    op,              \* the function that was called
    polynomials,     \* the labeled polynomials handed to PC::commit
    commitments,     \* the labeled commitments PC::commit returned
    hiding_rands,    \* the randomness list handed to get_commitments_lc_with_rands
    lc,              \* the linear combination
    vo,              \* the virtual oracle under construction or in use
    args,            \* the arguments of the call made on the virtual oracle
    result,          \* what the call returned
    prover,          \* what a prove call returned and what it did on the way
    verifier         \* what a verify call returned and what it did on the way

vars == <<pc, op, polynomials, commitments, hiding_rands, lc, vo, args, result,
          prover, verifier>>

----------------------------------------------------------------------------
(* The scalar field and dense polynomials over it *)

\* order of the scalar field F (and of the commitment group)
P == 3

F == 0 .. (P - 1)

\* a - b in F
FSub(a, b) == (a - b + P) % P

FMul(a, b) == (a * b) % P

FAdd(a, b) == (a + b) % P

RECURSIVE FPow(_, _)
FPow(a, n) == IF n = 0 THEN 1 ELSE FMul(a, FPow(a, n - 1))

\* DensePolynomial: the coefficient sequence, lowest degree first, without
\* trailing zeros (the zero polynomial is << >>)
RECURSIVE Truncate(_)
Truncate(p) ==
    IF p = << >> THEN << >>
    ELSE IF p[Len(p)] = 0 THEN Truncate(SubSeq(p, 1, Len(p) - 1))
    ELSE p

Coeff(p, i) == IF i <= Len(p) THEN p[i] ELSE 0

Max2(a, b) == IF a >= b THEN a ELSE b

PolyAdd(p, q) ==
    Truncate([i \in 1 .. Max2(Len(p), Len(q)) |-> FAdd(Coeff(p, i), Coeff(q, i))])

PolySub(p, q) ==
    Truncate([i \in 1 .. Max2(Len(p), Len(q)) |-> FSub(Coeff(p, i), Coeff(q, i))])

PolyScale(p, c) == Truncate([i \in 1 .. Len(p) |-> FMul(p[i], c)])

RECURSIVE PolyMul(_, _)
\* p * q: p[1] * q + X * (Tail(p) * q)
PolyMul(p, q) ==
    IF p = << >> \/ q = << >> THEN << >>
    ELSE PolyAdd(PolyScale(q, Head(p)), Truncate(<<0>> \o PolyMul(Tail(p), q)))

\* Horner evaluation of p at x
RECURSIVE PolyEval(_, _)
PolyEval(p, x) ==
    IF p = << >> THEN 0
    ELSE FAdd(Head(p), FMul(x, PolyEval(Tail(p), x)))

----------------------------------------------------------------------------
(* The commitment scheme behind the AHPCS interface *)

\* Option<usize> of a degree bound: None, or Some(d)
None == << >>

Some(d) == <<d>>

\* the supported degree of the committer key
maximum_degree == 2

\* the trapdoor of the structured reference string
Tau == 2

\* KZG-style commitment: the polynomial evaluated at the trapdoor, with the
\* powers shifted by maximum_degree - bound when a degree bound is enforced
Commit(p, degree_bound) ==
    IF degree_bound = None THEN PolyEval(p, Tau)
    ELSE FMul(FPow(Tau, maximum_degree - degree_bound[1]), PolyEval(p, Tau))

\* Commitment::empty() and Randomness::empty(): the group identity
Empty == 0

\* PC::commit without hiding: one labeled commitment per labeled polynomial
PCCommit(polys) ==
    [i \in 1 .. Len(polys) |->
        [label |-> polys[i].label,
         commitment |-> Commit(polys[i].polynomial, polys[i].degree_bound),
         degree_bound |-> polys[i].degree_bound]]

----------------------------------------------------------------------------
(* Results *)

Ok(v) == [tag |-> "Ok", value |-> v]

Err(e) == [tag |-> "Err", error |-> e]

\* the call did not return: index out of bounds, expect() or unwrap() failed
Panic == [tag |-> "Panic"]

NoResult == [tag |-> "None"]

----------------------------------------------------------------------------
(* zero_over_k/src/commitment.rs *)

PolyLabel(l) == [kind |-> "PolyLabel", label |-> l]

LCTermOne == [kind |-> "One"]

\* the index of the first commitment labeled l, 0 when there is none
\* (Iterator::find over the slice)
RECURSIVE FindFrom(_, _, _)
FindFrom(comms, l, i) ==
    IF i > Len(comms) THEN 0
    ELSE IF comms[i].label = l THEN i
    ELSE FindFrom(comms, l, i + 1)

\* a search that starts after the first commitment
FindSkipFirst(comms, l) == FindFrom(comms, l, 2)

Find(comms, l) == FindFrom(comms, l, 1)

\* a check that compares every degree bound with None instead of the first one
DegreeBoundMismatchAgainstNone(comms) ==
    \E i \in 1 .. Len(comms) : comms[i].degree_bound # None

\* the loop over the degree bounds: TRUE when some commitment has a degree
\* bound other than that of commitments[0]
DegreeBoundMismatch(comms) ==
    \E i \in 1 .. Len(comms) : comms[i].degree_bound # comms[1].degree_bound

\* a loop that overwrites the aggregate instead of adding to it
RECURSIVE LcLoopOverwrite(_, _, _, _)
LcLoopOverwrite(comms, terms, k, aggregate_commitment) ==
    IF k > Len(terms) THEN Ok(aggregate_commitment)
    ELSE LET coef == terms[k].coef
             term == terms[k].term
             idx == IF term.kind = "PolyLabel" THEN Find(comms, term.label) ELSE 0
         IN  IF term.kind = "PolyLabel" /\ idx = 0
             THEN Err("MissingCommitment")
             ELSE LET commitment == IF term.kind = "PolyLabel"
                                    THEN comms[idx].commitment
                                    ELSE Empty
                  IN  LcLoopOverwrite(comms, terms, k + 1, FMul(commitment, coef))

\* the loop over the terms of the linear combination, from term k on, with
\* the aggregate built so far
RECURSIVE LcLoop(_, _, _, _)
LcLoop(comms, terms, k, aggregate_commitment) ==
    IF k > Len(terms) THEN Ok(aggregate_commitment)
    ELSE LET coef == terms[k].coef
             term == terms[k].term
             idx == IF term.kind = "PolyLabel" THEN Find(comms, term.label) ELSE 0
         IN  IF term.kind = "PolyLabel" /\ idx = 0
             THEN Err("MissingCommitment")
             ELSE LET commitment == IF term.kind = "PolyLabel"
                                    THEN comms[idx].commitment
                                    ELSE Empty
                  IN  LcLoop(comms, terms, k + 1,
                             FAdd(aggregate_commitment, FMul(commitment, coef)))

\* a variant whose aggregate starts from the generator when the linear
\* combination has a constant term
get_commitments_lc_constant_counted(comms, lin) ==
    IF Len(comms) = 0 THEN Panic
    ELSE IF DegreeBoundMismatch(comms) THEN Err("MismatchedDegreeBounds")
    ELSE LET r == LcLoop(comms, lin.terms, 1,
                         IF \E k \in 1 .. Len(lin.terms) : lin.terms[k].term = LCTermOne
                         THEN 1 ELSE Empty)
         IN  IF r.tag = "Err" THEN r
             ELSE Ok([label |-> lin.label,
                      commitment |-> r.value,
                      degree_bound |-> comms[1].degree_bound])

get_commitments_lc(comms, lin) ==
    IF Len(comms) = 0 THEN Panic
    ELSE IF DegreeBoundMismatch(comms) THEN Err("MismatchedDegreeBounds")
    ELSE LET r == LcLoop(comms, lin.terms, 1, Empty)
         IN  IF r.tag = "Err" THEN r
             ELSE Ok([label |-> lin.label,
                      commitment |-> r.value,
                      degree_bound |-> comms[1].degree_bound])

\* a loop that pairs every commitment with the randomness of the term's position
RECURSIVE LcRandLoopByTerm(_, _, _, _, _, _)
LcRandLoopByTerm(comms, rands, terms, k, aggregate_commitment, aggregate_randomness) ==
    IF k > Len(terms)
    THEN Ok([commitment |-> aggregate_commitment, randomness |-> aggregate_randomness])
    ELSE LET coef == terms[k].coef
             term == terms[k].term
             idx == IF term.kind = "PolyLabel" THEN Find(comms, term.label) ELSE 0
         IN  IF term.kind = "PolyLabel" /\ idx = 0
             THEN Err("MissingCommitment")
             ELSE LET comm == IF term.kind = "PolyLabel"
                              THEN comms[idx].commitment ELSE Empty
                      rand == IF term.kind = "PolyLabel" /\ k <= Len(rands)
                              THEN rands[k] ELSE Empty
                  IN  LcRandLoopByTerm(comms, rands, terms, k + 1,
                                       FAdd(aggregate_commitment, FMul(comm, coef)),
                                       FAdd(aggregate_randomness, FMul(rand, coef)))

\* the loop of get_commitments_lc_with_rands: commitment and randomness are
\* aggregated together, the randomness taken at the position of the commitment
RECURSIVE LcRandLoop(_, _, _, _, _, _)
LcRandLoop(comms, rands, terms, k, aggregate_commitment, aggregate_randomness) ==
    IF k > Len(terms)
    THEN Ok([commitment |-> aggregate_commitment, randomness |-> aggregate_randomness])
    ELSE LET coef == terms[k].coef
             term == terms[k].term
             idx == IF term.kind = "PolyLabel" THEN Find(comms, term.label) ELSE 0
         IN  IF term.kind = "PolyLabel" /\ idx = 0
             THEN Err("MissingCommitment")
             ELSE LET comm == IF term.kind = "PolyLabel"
                              THEN comms[idx].commitment ELSE Empty
                      rand == IF term.kind = "PolyLabel"
                              THEN rands[idx] ELSE Empty
                  IN  LcRandLoop(comms, rands, terms, k + 1,
                                 FAdd(aggregate_commitment, FMul(comm, coef)),
                                 FAdd(aggregate_randomness, FMul(rand, coef)))

\* a variant that compares the lengths only after the degree bounds
get_commitments_lc_with_rands_late_length(comms, rands, lin) ==
    IF Len(comms) = 0 THEN Panic
    ELSE IF DegreeBoundMismatch(comms) THEN Err("MismatchedDegreeBounds")
    ELSE IF Len(comms) # Len(rands) THEN Err("InputLengthError")
    ELSE LET r == LcRandLoop(comms, rands, lin.terms, 1, Empty, Empty)
         IN  IF r.tag = "Err" THEN r
             ELSE Ok([label |-> lin.label,
                      commitment |-> r.value.commitment,
                      degree_bound |-> comms[1].degree_bound,
                      randomness |-> r.value.randomness])

get_commitments_lc_with_rands(comms, rands, lin) ==
    IF Len(comms) # Len(rands) THEN Err("InputLengthError")
    ELSE IF Len(comms) = 0 THEN Panic
    ELSE IF DegreeBoundMismatch(comms) THEN Err("MismatchedDegreeBounds")
    ELSE LET r == LcRandLoop(comms, rands, lin.terms, 1, Empty, Empty)
         IN  IF r.tag = "Err" THEN r
             ELSE Ok([label |-> lin.label,
                      commitment |-> r.value.commitment,
                      degree_bound |-> comms[1].degree_bound,
                      randomness |-> r.value.randomness])

----------------------------------------------------------------------------
(* Inputs of the commitment layer *)

\* the largest number of polynomials committed in one call
MaxCommits == 2

\* the largest number of terms of a linear combination
MaxTerms == 2

Labels == {"a", "b"}

DegreeBounds == {None, Some(1)}

\* sample polynomials: 1 and X
Polys == {<<1>>, <<0, 1>>}

\* sample scalars (1 and -1): coefficients and randomness values
Scalars == {1, 2}

SeqsUpTo(S, n) == UNION {[1 .. k -> S] : k \in 0 .. n}

LabeledPolynomials == [label : Labels, polynomial : Polys, degree_bound : DegreeBounds]

LCTerms == {PolyLabel(l) : l \in Labels} \cup {LCTermOne}

LinearCombinations ==
    [label : {"a_plus_b"}, terms : SeqsUpTo([coef : Scalars, term : LCTerms], MaxTerms)]

InitLC ==
    /\ pc = "idle"
    /\ op = "none"
    /\ polynomials \in SeqsUpTo(LabeledPolynomials, MaxCommits)
    /\ commitments = PCCommit(polynomials)
    /\ hiding_rands = << >>
    /\ lc = [label |-> "a_plus_b", terms |-> << >>]
    /\ vo = NoResult
    /\ args = << >>
    /\ result = NoResult
    /\ prover = NoResult
    /\ verifier = NoResult

Call_get_commitments_lc ==
    /\ pc = "idle"
    /\ \E lin \in LinearCombinations :
        /\ lc' = lin
        /\ result' = get_commitments_lc(commitments, lin)
    /\ op' = "get_commitments_lc"
    /\ pc' = "done"
    /\ UNCHANGED <<polynomials, commitments, hiding_rands, vo, args, prover, verifier>>

Call_get_commitments_lc_with_rands ==
    /\ pc = "idle"
    /\ \E lin \in LinearCombinations, rands \in SeqsUpTo(Scalars, MaxCommits) :
        /\ lc' = lin
        /\ hiding_rands' = rands
        /\ result' = get_commitments_lc_with_rands(commitments, rands, lin)
    /\ op' = "get_commitments_lc_with_rands"
    /\ pc' = "done"
    /\ UNCHANGED <<polynomials, commitments, vo, args, prover, verifier>>

NextLC == Call_get_commitments_lc \/ Call_get_commitments_lc_with_rands

SpecLC == InitLC /\ [][NextLC]_vars

----------------------------------------------------------------------------
(* Properties of the commitment layer *)

Called(f) == pc = "done" /\ op = f

RECURSIVE SumF(_, _)
\* the sum in F of s[1] .. s[n]
SumF(s, n) == IF n = 0 THEN 0 ELSE FAdd(SumF(s, n - 1), s[n])

\* the scalar of label l in lin: the sum of the coefficients of the terms that
\* name l
Scalar(lin, l) ==
    SumF([k \in 1 .. Len(lin.terms) |->
             IF lin.terms[k].term = PolyLabel(l) THEN lin.terms[k].coef ELSE 0],
         Len(lin.terms))

RECURSIVE PolySum(_, _, _)
\* the polynomial sum over i <= n of Scalar(lin, label of p_i) * p_i
PolySum(polys, lin, n) ==
    IF n = 0 THEN << >>
    ELSE PolyAdd(PolySum(polys, lin, n - 1),
                 PolyScale(polys[n].polynomial, Scalar(lin, polys[n].label)))

\* the sum over i of Scalar(lin, label of c_i) * c_i in the commitment group
GroupSum(comms, lin) ==
    SumF([i \in 1 .. Len(comms) |-> FMul(Scalar(lin, comms[i].label), comms[i].commitment)],
         Len(comms))

LabelsOf(s) == {s[i].label : i \in 1 .. Len(s)}

DistinctLabels(s) == Cardinality(LabelsOf(s)) = Len(s)

DegreeBoundsOf(s) == {s[i].degree_bound : i \in 1 .. Len(s)}

\* at least one element, and all of them carry the same degree bound
ShareOneDegreeBound(s) == Cardinality(DegreeBoundsOf(s)) = 1

\* the labels that the polynomial-label terms of lin name
NamedLabels(lin) ==
    {lin.terms[k].term.label :
        k \in {j \in 1 .. Len(lin.terms) : lin.terms[j].term.kind = "PolyLabel"}}

\* every term of lin is a polynomial label, and names one of the labels of s
OverLabels(lin, s) ==
    /\ \A k \in 1 .. Len(lin.terms) : lin.terms[k].term.kind = "PolyLabel"
    /\ NamedLabels(lin) \subseteq LabelsOf(s)

\* C1: for committed polynomials p_1..p_n with distinct labels and one shared
\* degree bound and a linear combination over their labels, get_commitments_lc
\* (and get_commitments_lc_with_rands, given one randomness per commitment)
\* returns the commitment of the polynomial sum of l_i*p_i, which is the sum of
\* l_i*commit(p_i) in the group, under the linear combination's label and the
\* shared degree bound.
C1_Homomorphism ==
    ( /\ pc = "done"
      /\ op = "get_commitments_lc_with_rands" => Len(hiding_rands) = Len(commitments)
      /\ DistinctLabels(polynomials)
      /\ ShareOneDegreeBound(polynomials)
      /\ OverLabels(lc, polynomials) )
    => /\ result.tag = "Ok"
       /\ result.value.commitment
             = Commit(PolySum(polynomials, lc, Len(polynomials)), polynomials[1].degree_bound)
       /\ result.value.commitment = GroupSum(commitments, lc)
       /\ result.value.label = lc.label
       /\ DegreeBoundsOf(polynomials) = {result.value.degree_bound}

\* two polynomials under an enforced degree bound, combined by two terms into
\* a commitment that is not the identity
C1_Witness ==
    /\ Called("get_commitments_lc")
    /\ Len(polynomials) = 2
    /\ DistinctLabels(polynomials)
    /\ DegreeBoundsOf(polynomials) = {Some(1)}
    /\ Len(lc.terms) = 2
    /\ NamedLabels(lc) = LabelsOf(polynomials)
    /\ OverLabels(lc, polynomials)
    /\ result.tag = "Ok"
    /\ result.value.commitment # Empty

\* the randomness the pairing in order prescribes: the sum over the positions
\* i of Scalar(lin, label of c_i) * rands[i]
PairedRandomness(comms, rands, lin) ==
    SumF([i \in 1 .. Len(comms) |-> FMul(Scalar(lin, comms[i].label), rands[i])],
         Len(comms))

\* C2: whenever get_commitments_lc_with_rands and get_commitments_lc both
\* succeed on the same commitments and linear combination they return the same
\* labeled commitment, and (labels being distinct) the randomness returned is
\* the sum over the terms of coefficient times the randomness at the position
\* of the commitment the term names.
C2_WithRandsAgrees ==
    ( /\ Called("get_commitments_lc_with_rands")
      /\ result.tag = "Ok"
      /\ get_commitments_lc(commitments, lc).tag = "Ok" )
    => LET plain == get_commitments_lc(commitments, lc).value
       IN  /\ result.value.label = plain.label
           /\ result.value.commitment = plain.commitment
           /\ result.value.degree_bound = plain.degree_bound
           /\ DistinctLabels(commitments)
                 => result.value.randomness
                        = PairedRandomness(commitments, hiding_rands, lc)

\* two commitments with different randomness, the second one named first
C2_Witness ==
    /\ Called("get_commitments_lc_with_rands")
    /\ result.tag = "Ok"
    /\ Len(commitments) = 2
    /\ DistinctLabels(commitments)
    /\ hiding_rands[1] # hiding_rands[2]
    /\ Len(lc.terms) = 2
    /\ lc.terms[1].term = PolyLabel(commitments[2].label)
    /\ lc.terms[2].term = PolyLabel(commitments[1].label)
    /\ result.value.randomness # Empty

\* C3 as stated: both functions return MismatchedDegreeBounds whenever some
\* commitment's degree bound differs from the first one's, and never when all
\* commitments share one degree bound.
C3_Original ==
    pc = "done"
    => /\ Cardinality(DegreeBoundsOf(commitments)) > 1
            => result = Err("MismatchedDegreeBounds")
       /\ Cardinality(DegreeBoundsOf(commitments)) <= 1
            => result # Err("MismatchedDegreeBounds")

\* C3 amended: get_commitments_lc returns MismatchedDegreeBounds whenever some
\* commitment's degree bound differs from the first one's;
\* get_commitments_lc_with_rands does so whenever, in addition, there are as
\* many randomness values as commitments; neither returns that error when all
\* commitments share one degree bound.
C3_MismatchedDegreeBounds ==
    pc = "done"
    => /\ ( /\ Cardinality(DegreeBoundsOf(commitments)) > 1
            /\ op = "get_commitments_lc_with_rands"
                  => Len(hiding_rands) = Len(commitments) )
            => result = Err("MismatchedDegreeBounds")
       /\ Cardinality(DegreeBoundsOf(commitments)) <= 1
            => result # Err("MismatchedDegreeBounds")

\* the second commitment's degree bound differs, randomness is paired, and the
\* linear combination names a label that no commitment has
C3_Witness ==
    /\ Called("get_commitments_lc_with_rands")
    /\ Len(commitments) = 2
    /\ Len(hiding_rands) = 2
    /\ commitments[2].degree_bound # commitments[1].degree_bound
    /\ ~ (NamedLabels(lc) \subseteq LabelsOf(commitments))
    /\ result = Err("MismatchedDegreeBounds")

\* C4 as stated: when the commitments share one degree bound, both functions
\* return MissingCommitment if and only if some polynomial-label term names a
\* label that no commitment has.
C4_Original ==
    (pc = "done" /\ ShareOneDegreeBound(commitments))
    => ( result = Err("MissingCommitment")
           <=> ~ (NamedLabels(lc) \subseteq LabelsOf(commitments)) )

\* C4 amended: when the commitments share one degree bound and, for
\* get_commitments_lc_with_rands, there are as many randomness values as
\* commitments, the function returns MissingCommitment if and only if some
\* polynomial-label term names a label that no commitment has.
C4_MissingCommitment ==
    ( /\ pc = "done"
      /\ ShareOneDegreeBound(commitments)
      /\ op = "get_commitments_lc_with_rands" => Len(hiding_rands) = Len(commitments) )
    => ( result = Err("MissingCommitment")
           <=> ~ (NamedLabels(lc) \subseteq LabelsOf(commitments)) )

\* the second term names a label that neither of two commitments has
C4_Witness ==
    /\ Called("get_commitments_lc_with_rands")
    /\ Len(commitments) = 2
    /\ Len(hiding_rands) = 2
    /\ ShareOneDegreeBound(commitments)
    /\ Len(lc.terms) = 2
    /\ lc.terms[1].term.kind = "PolyLabel"
    /\ lc.terms[1].term.label \in LabelsOf(commitments)
    /\ lc.terms[2].term.kind = "PolyLabel"
    /\ lc.terms[2].term.label \notin LabelsOf(commitments)
    /\ result = Err("MissingCommitment")

\* C5: get_commitments_lc_with_rands returns InputLengthError whenever the
\* number of commitments differs from the number of randomness values, also
\* when the degree bounds differ or a label is missing.
C5_InputLengthFirst ==
    ( /\ Called("get_commitments_lc_with_rands")
      /\ Len(commitments) # Len(hiding_rands) )
    => result = Err("InputLengthError")

\* the lengths differ, the degree bounds differ and a label is missing
C5_Witness ==
    /\ Called("get_commitments_lc_with_rands")
    /\ Len(commitments) # Len(hiding_rands)
    /\ Cardinality(DegreeBoundsOf(commitments)) > 1
    /\ ~ (NamedLabels(lc) \subseteq LabelsOf(commitments))
    /\ result = Err("InputLengthError")

\* the errors get_commitments_lc and get_commitments_lc_with_rands declare
LCErrors == {"MismatchedDegreeBounds", "MissingCommitment", "InputLengthError"}

\* C6: get_commitments_lc and get_commitments_lc_with_rands return Ok or one
\* of their declared errors on every input, the empty list of commitments
\* included, and never panic.
C6_Total ==
    pc = "done"
    => \/ result.tag = "Ok"
       \/ result.tag = "Err" /\ result.error \in LCErrors

----------------------------------------------------------------------------
(* virtual_oracle/new_vo/vo_term.rs and presets.rs: terms and combine functions *)

Evaluation(e) == [kind |-> "Evaluation", eval |-> e]

Polynomial(p) == [kind |-> "Polynomial", poly |-> p]

\* a term read as a polynomial: an evaluation is the constant polynomial
AsPoly(t) == IF t.kind = "Polynomial" THEN t.poly ELSE Truncate(<<t.eval>>)

\* VOTerm - VOTerm: a field element when both are evaluations, otherwise a polynomial
TermSub(a, b) ==
    IF a.kind = "Evaluation" /\ b.kind = "Evaluation"
    THEN Evaluation(FSub(a.eval, b.eval))
    ELSE Polynomial(PolySub(AsPoly(a), AsPoly(b)))

\* VOTerm * VOTerm
TermMul(a, b) ==
    IF a.kind = "Evaluation" /\ b.kind = "Evaluation"
    THEN Evaluation(FMul(a.eval, b.eval))
    ELSE Polynomial(PolyMul(AsPoly(a), AsPoly(b)))

\* the combine functions of the presets
CombineFunctions == {"square_check", "product_check", "inverse_check"}

\* closures of type Fn(&[VOTerm<F>]) -> VOTerm<F> that return one kind of term
\* whatever the kind of the terms they are given: the evaluation 1, the
\* polynomial X
MistypedCombineFunctions == {"constant_evaluation", "constant_polynomial"}

\* the number of terms a combine function reads
Arity(f) ==
    CASE f = "product_check" -> 3
      [] f \in {"square_check", "inverse_check"} -> 2
      [] OTHER -> 0

\* (self.combine_function)(&terms): the closure indexes the slice of terms
Combine(f, terms) ==
    IF Len(terms) < Arity(f) THEN Panic
    ELSE CASE f = "square_check" ->
                  Ok(TermSub(terms[1], TermMul(terms[2], terms[2])))
           [] f = "product_check" ->
                  Ok(TermSub(terms[1], TermMul(terms[2], terms[3])))
           [] f = "inverse_check" ->
                  Ok(TermSub(Evaluation(1), TermMul(terms[1], terms[2])))
           [] f = "constant_evaluation" -> Ok(Evaluation(1))
           [] f = "constant_polynomial" -> Ok(Polynomial(<<0, 1>>))

\* util::shift_dense_poly: p(alpha * X), coefficient i scaled by alpha^i
shift_dense_poly(p, alpha) ==
    Truncate([i \in 1 .. Len(p) |-> FMul(p[i], FPow(alpha, i - 1))])

----------------------------------------------------------------------------
(* virtual_oracle/product_check_oracle.rs *)

ProductCheckVO_new == [kind |-> "ProductCheckVO"]

ProductCheckVO_num_of_oracles == 3

ProductCheckVO_mapping_vector == <<0, 1, 2>>

\* the alphas are not read
ProductCheckVO_instantiate_in_coeffs_form(concrete_oracles, alphas) ==
    IF Len(concrete_oracles) # 3 THEN Err("InstantiationError")
    ELSE Ok(PolySub(concrete_oracles[1],
                    PolyMul(concrete_oracles[2], concrete_oracles[3])))

\* a query that rejects only too few evaluations
ProductCheckVO_query_at_least(evals, point) ==
    IF Len(evals) < 3 THEN Err("EvaluationError")
    ELSE Ok(FSub(evals[1], FMul(evals[2], evals[3])))

\* the point is not read
ProductCheckVO_query(evals, point) ==
    IF Len(evals) # 3 THEN Err("EvaluationError")
    ELSE Ok(FSub(evals[1], FMul(evals[2], evals[3])))

----------------------------------------------------------------------------
(* virtual_oracle/new_vo/mod.rs *)

RECURSIVE MaxOf(_)
\* Iterator::max of a non-empty sequence
MaxOf(s) ==
    IF Len(s) = 1 THEN s[1] ELSE Max2(Head(s), MaxOf(Tail(s)))

\* a constructor that takes the number of terms for the minimum oracle length
NewVO_new_by_number_of_terms(mapping_vector, shifting_coefficients, combine_function) ==
    IF Len(shifting_coefficients) # Len(mapping_vector) THEN Err("InputLengthError")
    ELSE IF mapping_vector = << >> THEN Panic
    ELSE Ok([kind |-> "NewVO",
             mapping_vector |-> mapping_vector,
             shifting_coefficients |-> shifting_coefficients,
             combine_function |-> combine_function,
             minimum_oracle_length |-> Len(mapping_vector)])

NewVO_new(mapping_vector, shifting_coefficients, combine_function) ==
    IF Len(shifting_coefficients) # Len(mapping_vector) THEN Err("InputLengthError")
    ELSE IF mapping_vector = << >> THEN Panic
    ELSE Ok([kind |-> "NewVO",
             mapping_vector |-> mapping_vector,
             shifting_coefficients |-> shifting_coefficients,
             combine_function |-> combine_function,
             minimum_oracle_length |-> MaxOf(mapping_vector) + 1])

number_of_internal_terms(self) == Len(self.mapping_vector)

\* get_term_labels: the label of the mapped concrete oracle for every term;
\* the slice is indexed without a check, and a Vec is returned, not a Result
get_term_labels(self, concrete_oracle_labels) ==
    IF \E i \in 1 .. Len(self.mapping_vector) :
          self.mapping_vector[i] + 1 > Len(concrete_oracle_labels)
    THEN Panic
    ELSE Ok([i \in 1 .. Len(self.mapping_vector) |->
                concrete_oracle_labels[self.mapping_vector[i] + 1]])

check_conrete_oracle_length(self, input_length) ==
    IF input_length < self.minimum_oracle_length
    THEN Err("InputLengthError")
    ELSE Ok(<< >>)

compute_polynomial(self, concrete_oracles) ==
    IF check_conrete_oracle_length(self, Len(concrete_oracles)).tag = "Err"
    THEN check_conrete_oracle_length(self, Len(concrete_oracles))
    ELSE LET terms == [term_index \in 1 .. Len(self.mapping_vector) |->
                          Polynomial(shift_dense_poly(
                              concrete_oracles[self.mapping_vector[term_index] + 1],
                              self.shifting_coefficients[term_index]))]
             combined == Combine(self.combine_function, terms)
         IN  IF combined.tag = "Panic" THEN Panic
             ELSE IF combined.value.kind = "Evaluation"
                  THEN Err("VOFailedToInstantiate")
                  ELSE Ok(combined.value.poly)

\* the label the model gives the concrete oracle of index j (0-based)
OracleLabel(j) == <<"f", j>>

evaluate_from_concrete_evals(self, concrete_oracle_labels, eval_point, evaluations) ==
    IF \E i \in 1 .. Len(self.mapping_vector) :
          \/ self.mapping_vector[i] + 1 > Len(concrete_oracle_labels)
          \/ <<concrete_oracle_labels[self.mapping_vector[i] + 1],
               FMul(self.shifting_coefficients[i], eval_point)>> \notin DOMAIN evaluations
    THEN Panic
    ELSE LET terms == [term_index \in 1 .. Len(self.mapping_vector) |->
                          Evaluation(evaluations[
                              <<concrete_oracle_labels[self.mapping_vector[term_index] + 1],
                                FMul(self.shifting_coefficients[term_index], eval_point)>>])]
             combined == Combine(self.combine_function, terms)
         IN  IF combined.tag = "Panic" THEN Panic
             ELSE IF combined.value.kind = "Evaluation"
                  THEN Ok(combined.value.eval)
                  ELSE Err("VOFailedToCompute")

\* the alphas are not read: the shifts are self.shifting_coefficients
NewVO_instantiate_in_coeffs_form(self, concrete_oracles, alphas) ==
    compute_polynomial(self, concrete_oracles)

\* domain.fft(coeffs): the coefficients resized to the size of the domain and
\* evaluated at its elements
Fft(domain, coeffs) ==
    [i \in 1 .. Len(domain) |->
        PolyEval([j \in 1 .. Len(domain) |-> Coeff(coeffs, j)], domain[i])]

NewVO_instantiate_in_evals_form(self, concrete_oracles, alphas, domain) ==
    LET poly == compute_polynomial(self, concrete_oracles)
    IN  IF poly.tag = "Ok" THEN Ok(Fft(domain, poly.value)) ELSE poly

NewVO_mapping_vector(self) == self.mapping_vector

NewVO_num_of_oracles(self) == Len(self.mapping_vector)

\* a query that reports a polynomial with the error of the instantiation path
NewVO_query_instantiate_error(self, evals, point) ==
    LET terms == [i \in 1 .. Len(evals) |-> Evaluation(evals[i])]
        combined == Combine(self.combine_function, terms)
    IN  IF combined.tag = "Panic" THEN Panic
        ELSE IF combined.value.kind = "Evaluation"
             THEN Ok(combined.value.eval)
             ELSE Err("VOFailedToInstantiate")

\* VirtualOracle::query of NewVO: the point is not read, the number of
\* evaluations is not compared with anything
NewVO_query(self, evals, point) ==
    LET terms == [i \in 1 .. Len(evals) |-> Evaluation(evals[i])]
        combined == Combine(self.combine_function, terms)
    IN  IF combined.tag = "Panic" THEN Panic
        ELSE IF combined.value.kind = "Evaluation"
             THEN Ok(combined.value.eval)
             ELSE Err("VOFailedToCompute")

----------------------------------------------------------------------------
(* Inputs of the virtual oracles *)

\* the largest number of terms of a NewVO
MaxVOTerms == 3

\* the largest number of concrete oracles or evaluations handed to a NewVO
MaxOracles == 3

\* the indices a mapping vector may name
OracleIndices == {0, 1, 2}

\* sample concrete oracles: X and 1 + X
ConcretePolys == {<<0, 1>>, <<1, 1>>}

\* the evaluation domain: the subgroup {1, 2} of F
DomainK == <<1, 2>>

\* the concrete oracle of index j (0-based): the polynomial j + X
OraclePoly(j) == <<j % P, 1>>

\* the concrete oracles handed to a NewVO: the first n of them, for every n
ConcreteOracleLists == {[j \in 1 .. n |-> OraclePoly(j - 1)] : n \in 0 .. MaxOracles}

\* the same shift for every one of n terms
Alphas(n) == {[i \in 1 .. n |-> a] : a \in Scalars}

\* the evaluations of the concrete oracles at every point of F, keyed by
\* (label, point)
EvaluationsOf(concrete_oracles) ==
    [key \in {<<OracleLabel(j - 1), x>> : j \in 1 .. Len(concrete_oracles), x \in F} |->
        PolyEval(concrete_oracles[key[1][2] + 1], key[2])]

LabelsFor(concrete_oracles) == [j \in 1 .. Len(concrete_oracles) |-> OracleLabel(j - 1)]

InitVO ==
    /\ pc = "idle"
    /\ op = "none"
    /\ polynomials = << >>
    /\ commitments = << >>
    /\ hiding_rands = << >>
    /\ lc = [label |-> "a_plus_b", terms |-> << >>]
    /\ vo = NoResult
    /\ args = << >>
    /\ result = NoResult
    /\ prover = NoResult
    /\ verifier = NoResult

LCUnchanged == UNCHANGED <<polynomials, commitments, hiding_rands, lc>>

\* the virtual oracles prove and verify nothing
ProofUnchanged == UNCHANGED <<prover, verifier>>

Call_ProductCheckVO_new ==
    /\ pc = "idle"
    /\ vo' = Ok(ProductCheckVO_new)
    /\ args' = << >>
    /\ result' = vo'
    /\ op' = "ProductCheckVO::new"
    /\ pc' = "built"
    /\ LCUnchanged
    /\ ProofUnchanged

Call_NewVO_new ==
    /\ pc = "idle"
    /\ \E mv \in SeqsUpTo(OracleIndices, MaxVOTerms),
          sc \in SeqsUpTo(Scalars, MaxVOTerms),
          cf \in CombineFunctions \cup MistypedCombineFunctions :
        /\ args' = [mapping_vector |-> mv, shifting_coefficients |-> sc,
                    combine_function |-> cf]
        /\ vo' = NewVO_new(mv, sc, cf)
    /\ result' = vo'
    /\ op' = "NewVO::new"
    /\ pc' = "built"
    /\ LCUnchanged
    /\ ProofUnchanged

IsBuilt(kind) == pc = "built" /\ vo.tag = "Ok" /\ vo.value.kind = kind

Call_ProductCheckVO_instantiate_in_coeffs_form ==
    /\ IsBuilt("ProductCheckVO")
    /\ \E co \in SeqsUpTo(ConcretePolys, ProductCheckVO_num_of_oracles + 1),
          al \in [1 .. ProductCheckVO_num_of_oracles -> Scalars] :
        /\ args' = [concrete_oracles |-> co, alphas |-> al]
        /\ result' = ProductCheckVO_instantiate_in_coeffs_form(co, al)
    /\ op' = "ProductCheckVO::instantiate_in_coeffs_form"
    /\ pc' = "done"
    /\ UNCHANGED vo
    /\ LCUnchanged
    /\ ProofUnchanged

Call_ProductCheckVO_query ==
    /\ IsBuilt("ProductCheckVO")
    /\ \E ev \in SeqsUpTo(F, ProductCheckVO_num_of_oracles + 1), pt \in F :
        /\ args' = [evals |-> ev, point |-> pt]
        /\ result' = ProductCheckVO_query(ev, pt)
    /\ op' = "ProductCheckVO::query"
    /\ pc' = "done"
    /\ UNCHANGED vo
    /\ LCUnchanged
    /\ ProofUnchanged

Call_NewVO_instantiate_in_coeffs_form ==
    /\ IsBuilt("NewVO")
    /\ \E co \in ConcreteOracleLists :
       \E al \in Alphas(Len(co)) :
        /\ args' = [concrete_oracles |-> co, alphas |-> al]
        /\ result' = NewVO_instantiate_in_coeffs_form(vo.value, co, al)
    /\ op' = "NewVO::instantiate_in_coeffs_form"
    /\ pc' = "done"
    /\ UNCHANGED vo
    /\ LCUnchanged
    /\ ProofUnchanged

Call_NewVO_instantiate_in_evals_form ==
    /\ IsBuilt("NewVO")
    /\ \E co \in ConcreteOracleLists :
        /\ args' = [concrete_oracles |-> co,
                    alphas |-> [i \in 1 .. Len(co) |-> 1],
                    domain |-> DomainK]
        /\ result' = NewVO_instantiate_in_evals_form(
                         vo.value, co, [i \in 1 .. Len(co) |-> 1], DomainK)
    /\ op' = "NewVO::instantiate_in_evals_form"
    /\ pc' = "done"
    /\ UNCHANGED vo
    /\ LCUnchanged
    /\ ProofUnchanged

Call_NewVO_query ==
    /\ IsBuilt("NewVO")
    /\ \E ev \in SeqsUpTo(F, MaxOracles), pt \in Scalars :
        /\ args' = [evals |-> ev, point |-> pt]
        /\ result' = NewVO_query(vo.value, ev, pt)
    /\ op' = "NewVO::query"
    /\ pc' = "done"
    /\ UNCHANGED vo
    /\ LCUnchanged
    /\ ProofUnchanged

Call_NewVO_evaluate_from_concrete_evals ==
    /\ IsBuilt("NewVO")
    /\ \E co \in ConcreteOracleLists :
       LET labels == LabelsFor(co)
           evaluations == EvaluationsOf(co)
       IN  \E pt \in F :
            /\ args' = [concrete_oracle_labels |-> labels,
                        eval_point |-> pt,
                        evaluations |-> evaluations]
            /\ result' = evaluate_from_concrete_evals(vo.value, labels, pt, evaluations)
    /\ op' = "NewVO::evaluate_from_concrete_evals"
    /\ pc' = "done"
    /\ UNCHANGED vo
    /\ LCUnchanged
    /\ ProofUnchanged

Call_NewVO_get_term_labels ==
    /\ IsBuilt("NewVO")
    /\ \E co \in ConcreteOracleLists :
        /\ args' = [concrete_oracle_labels |-> LabelsFor(co)]
        /\ result' = get_term_labels(vo.value, LabelsFor(co))
    /\ op' = "NewVO::get_term_labels"
    /\ pc' = "done"
    /\ UNCHANGED vo
    /\ LCUnchanged
    /\ ProofUnchanged

NextVO ==
    \/ Call_ProductCheckVO_new
    \/ Call_NewVO_new
    \/ Call_ProductCheckVO_instantiate_in_coeffs_form
    \/ Call_ProductCheckVO_query
    \/ Call_NewVO_instantiate_in_coeffs_form
    \/ Call_NewVO_instantiate_in_evals_form
    \/ Call_NewVO_query
    \/ Call_NewVO_evaluate_from_concrete_evals
    \/ Call_NewVO_get_term_labels

SpecVO == InitVO /\ [][NextVO]_vars

----------------------------------------------------------------------------
(* Properties of the virtual oracles *)

\* the evaluations of the mapped concrete oracles at their shifted points:
\* term i reads oracle mapping[i] at shifts[i] * c
ShiftedEvals(concrete_oracles, mapping, shifts, c) ==
    [i \in 1 .. Len(mapping) |->
        PolyEval(concrete_oracles[mapping[i] + 1], FMul(shifts[i], c))]

\* C7 for ProductCheckVO: the polynomial instantiate_in_coeffs_form returns for
\* three oracles and the shifts alphas, evaluated at any point c, is the value
\* query returns on the evaluations of the oracles at alphas[i] * c.
C7_ProductCheckVO ==
    ( /\ Called("ProductCheckVO::instantiate_in_coeffs_form")
      /\ Len(args.concrete_oracles) = ProductCheckVO_num_of_oracles )
    => /\ result.tag = "Ok"
       /\ \A c \in F :
            ProductCheckVO_query(
                ShiftedEvals(args.concrete_oracles, ProductCheckVO_mapping_vector,
                             args.alphas, c), c)
              = Ok(PolyEval(result.value, c))

\* C7 for NewVO: the polynomial instantiate_in_coeffs_form returns, evaluated
\* at any point c, is (for the combine functions of the presets) the value
\* query returns on the evaluations of the mapped oracles at
\* shifting_coefficients[i] * c, and the value
\* evaluate_from_concrete_evals returns at c from the table of evaluations.
C7_NewVO ==
    ( /\ Called("NewVO::instantiate_in_coeffs_form")
      /\ vo.value.combine_function \in CombineFunctions
      /\ result.tag = "Ok" )
    => \A c \in F :
         /\ NewVO_query(vo.value,
                        ShiftedEvals(args.concrete_oracles, vo.value.mapping_vector,
                                     vo.value.shifting_coefficients, c), c)
              = Ok(PolyEval(result.value, c))
         /\ evaluate_from_concrete_evals(vo.value, LabelsFor(args.concrete_oracles), c,
                                         EvaluationsOf(args.concrete_oracles))
              = Ok(PolyEval(result.value, c))

\* a NewVO with a shift other than 1 instantiated to a polynomial that is not zero
C7_NewVO_Witness ==
    /\ Called("NewVO::instantiate_in_coeffs_form")
    /\ result.tag = "Ok"
    /\ result.value # << >>
    /\ \E i \in 1 .. Len(vo.value.shifting_coefficients) :
          vo.value.shifting_coefficients[i] # 1

\* C7: for ProductCheckVO and NewVO and every tuple of concrete oracles
\* matching the arity, the instantiated polynomial evaluated at any field point
\* c equals the value of the evaluation path fed the evaluations of the mapped
\* oracles at their shifted points alpha_i * c.
C7_InstantiateAgreesWithQuery == C7_ProductCheckVO /\ C7_NewVO

\* C8: ProductCheckVO has three terms mapped (0, 1, 2), and for every shift
\* vector (a0, a1, a2) the polynomial V that instantiate_in_coeffs_form returns
\* satisfies V(x) = p0(a0*x) - p1(a1*x) * p2(a2*x) at every field point x.
C8_ShiftedProduct ==
    ( /\ Called("ProductCheckVO::instantiate_in_coeffs_form")
      /\ Len(args.concrete_oracles) = 3 )
    => /\ ProductCheckVO_num_of_oracles = 3
       /\ ProductCheckVO_mapping_vector = <<0, 1, 2>>
       /\ result.tag = "Ok"
       /\ \A x \in F :
            PolyEval(result.value, x)
              = FSub(PolyEval(args.concrete_oracles[1], FMul(args.alphas[1], x)),
                     FMul(PolyEval(args.concrete_oracles[2], FMul(args.alphas[2], x)),
                          PolyEval(args.concrete_oracles[3], FMul(args.alphas[3], x))))

\* C9: ProductCheckVO::instantiate_in_coeffs_form returns InstantiationError
\* exactly when the number of concrete oracles is not 3, query returns
\* EvaluationError exactly when the number of evaluations is not 3, and both
\* return Ok otherwise.
C9_ProductCheckArity ==
    /\ Called("ProductCheckVO::instantiate_in_coeffs_form")
         => IF Len(args.concrete_oracles) # 3
            THEN result = Err("InstantiationError")
            ELSE result.tag = "Ok"
    /\ Called("ProductCheckVO::query")
         => IF Len(args.evals) # 3
            THEN result = Err("EvaluationError")
            ELSE result.tag = "Ok"

\* four evaluations are rejected
C9_Witness ==
    /\ Called("ProductCheckVO::query")
    /\ Len(args.evals) = 4
    /\ result = Err("EvaluationError")

\* C10: NewVO::instantiate_in_coeffs_form and instantiate_in_evals_form with
\* fewer concrete oracles than max(mapping_vector) + 1 return
\* InstantiationError, and NewVO::query with a number of evaluations other than
\* the number of terms returns EvaluationError.
C10_NewVOArityErrors ==
    /\ ( /\ pc = "done"
         /\ op \in {"NewVO::instantiate_in_coeffs_form", "NewVO::instantiate_in_evals_form"}
         /\ Len(args.concrete_oracles) < MaxOf(vo.value.mapping_vector) + 1 )
         => result = Err("InstantiationError")
    /\ ( /\ Called("NewVO::query")
         /\ Len(args.evals) # Len(vo.value.mapping_vector) )
         => result = Err("EvaluationError")

\* the kind of term the combine function of self returns on terms of kind k
\* (one term per entry of the mapping vector)
ReturnedKind(self, k) ==
    LET terms == [i \in 1 .. Len(self.mapping_vector) |->
                     IF k = "Evaluation" THEN Evaluation(1) ELSE Polynomial(<<0, 1>>)]
        combined == Combine(self.combine_function, terms)
    IN  IF combined.tag = "Ok" THEN combined.value.kind ELSE "Panic"

\* the call reached the combine function: enough concrete oracles (or labels)
\* were handed over for the mapping vector
ReachedCombine ==
    \/ /\ op \in {"NewVO::instantiate_in_coeffs_form", "NewVO::instantiate_in_evals_form"}
       /\ Len(args.concrete_oracles) >= vo.value.minimum_oracle_length
    \/ /\ op = "NewVO::evaluate_from_concrete_evals"
       /\ Len(args.concrete_oracle_labels) >= vo.value.minimum_oracle_length
    \/ op = "NewVO::query"

\* C11 as stated: a combine function that returns a polynomial where an
\* evaluation was expected (evaluate_from_concrete_evals, query) or an
\* evaluation where a polynomial was expected (compute_polynomial, reached
\* through the two instantiate functions) makes the operation fail with
\* VOFailedToCompute.
C11_Original ==
    (pc = "done" /\ vo.tag = "Ok" /\ vo.value.kind = "NewVO" /\ ReachedCombine)
    => /\ ( /\ op \in {"NewVO::evaluate_from_concrete_evals", "NewVO::query"}
            /\ ReturnedKind(vo.value, "Evaluation") = "Polynomial" )
            => result = Err("VOFailedToCompute")
       /\ ( /\ op \in {"NewVO::instantiate_in_coeffs_form",
                       "NewVO::instantiate_in_evals_form"}
            /\ ReturnedKind(vo.value, "Polynomial") = "Evaluation" )
            => result = Err("VOFailedToCompute")

\* C11 amended: a combine function that returns a polynomial where an
\* evaluation was expected (evaluate_from_concrete_evals, query) makes the
\* operation fail with VOFailedToCompute; one that returns an evaluation where
\* a polynomial was expected (compute_polynomial, reached through the two
\* instantiate functions) makes it fail with VOFailedToInstantiate.
C11_MistypedCombine ==
    (pc = "done" /\ vo.tag = "Ok" /\ vo.value.kind = "NewVO" /\ ReachedCombine)
    => /\ ( /\ op \in {"NewVO::evaluate_from_concrete_evals", "NewVO::query"}
            /\ ReturnedKind(vo.value, "Evaluation") = "Polynomial" )
            => result = Err("VOFailedToCompute")
       /\ ( /\ op \in {"NewVO::instantiate_in_coeffs_form",
                       "NewVO::instantiate_in_evals_form"}
            /\ ReturnedKind(vo.value, "Polynomial") = "Evaluation" )
            => result = Err("VOFailedToInstantiate")

\* query on two evaluations with a combine function that returns a polynomial
C11_Witness ==
    /\ Called("NewVO::query")
    /\ Len(args.evals) = 2
    /\ ReturnedKind(vo.value, "Evaluation") = "Polynomial"
    /\ result = Err("VOFailedToCompute")

\* a NewVO value has been produced by NewVO::new
NewVOProduced == pc \in {"built", "done"} /\ vo.tag = "Ok" /\ vo.value.kind = "NewVO"

\* the largest element of a non-empty sequence of naturals, stated directly
IsMaxOf(m, s) ==
    /\ \E i \in 1 .. Len(s) : s[i] = m
    /\ \A i \in 1 .. Len(s) : s[i] <= m

\* the fields of every NewVO value: as many shifting coefficients as mapped
\* indices, which is the number of internal terms, and a minimum oracle length
\* of one more than the largest mapped index
C12_Fields ==
    NewVOProduced
    => /\ Len(vo.value.mapping_vector) = Len(vo.value.shifting_coefficients)
       /\ Len(vo.value.mapping_vector) = number_of_internal_terms(vo.value)
       /\ IsMaxOf(vo.value.minimum_oracle_length - 1, vo.value.mapping_vector)

\* NewVO::new returns Err(InputLengthError) exactly when its two vectors differ
\* in length
C12_LengthError ==
    (pc = "built" /\ op = "NewVO::new")
    => ( vo = Err("InputLengthError")
           <=> Len(args.mapping_vector) # Len(args.shifting_coefficients) )

\* a step taken once a NewVO value exists leaves the value as it is
C12_FieldsKept == NewVOProduced => vo' = vo

\* C12: every NewVO value produced by NewVO::new has |mapping_vector| =
\* |shifting_coefficients| = number_of_internal_terms() and
\* minimum_oracle_length = max(mapping_vector) + 1; NewVO::new returns
\* Err(InputLengthError) exactly when the two input vectors differ in length;
\* and no operation changes these fields afterwards.
C12_NewVOInvariant ==
    /\ [](C12_Fields /\ C12_LengthError)
    /\ [][C12_FieldsKept]_vars

\* a NewVO over three terms whose largest mapped index is not the last one and
\* is smaller than the number of terms, after an operation has used it
C12_Witness ==
    /\ pc = "done"
    /\ NewVOProduced
    /\ Len(vo.value.mapping_vector) = 3
    /\ vo.value.mapping_vector[1] = 1
    /\ vo.value.mapping_vector[3] = 0
    /\ vo.value.minimum_oracle_length = 2
    /\ result.tag = "Ok"

----------------------------------------------------------------------------
(* The scalar field of the proofs of function relation, its evaluation     *)
(* domains and the fast Fourier transform                                  *)

\* order of the scalar field Fr of the proofs: a prime with Q - 1 = 2^4, so
\* that Fr has the multiplicative subgroups of sizes 2, 4 and 8 and square
\* roots of their generators
Q == 17

Fr == 0 .. (Q - 1)

FrAdd(a, b) == (a + b) % Q

FrSub(a, b) == (a - b + Q) % Q

FrMul(a, b) == (a * b) % Q

RECURSIVE FrPow(_, _)
FrPow(a, n) == IF n = 0 THEN 1 ELSE FrMul(a, FrPow(a, n - 1))

\* Field::inverse: None for zero, Some(1/a) otherwise
FrInverse(a) == IF a = 0 THEN None ELSE Some(FrPow(a, Q - 2))

\* SquareRootField::sqrt: None for a non-residue, otherwise Some of one root,
\* picked by a fixed rule (here the smaller one)
FrSqrt(a) ==
    IF \E x \in Fr : FrMul(x, x) = a
    THEN Some(CHOOSE x \in Fr : FrMul(x, x) = a /\ \A y \in Fr : FrMul(y, y) = a => x <= y)
    ELSE None

\* a generator of the multiplicative group of Fr
FrGenerator == 3

\* Iterator::collect::<Vec<_>>(): the values of a mapping over 1 .. n, computed
\* once and stored in order
Vec(f) == SubSeq(f, 1, Len(f))

RECURSIVE NextPowerOfTwo(_)
NextPowerOfTwo(n) == IF n <= 1 THEN 1 ELSE 2 * NextPowerOfTwo((n + 1) \div 2)

\* GeneralEvaluationDomain::new(num_coeffs): the subgroup whose size is the
\* next power of two, listed as 1, g, g^2, ... for its generator g
NewDomain(num_coeffs) ==
    LET size == NextPowerOfTwo(num_coeffs)
        group_gen == FrPow(FrGenerator, (Q - 1) \div size)
    IN  Vec([i \in 1 .. size |-> FrPow(group_gen, i - 1)])

\* EvaluationDomain::element(i): the generator raised to i
Element(domain, i) == domain[(i % Len(domain)) + 1]

RECURSIVE FrSum(_, _)
\* the sum in Fr of s[1] .. s[n]
FrSum(s, n) == IF n = 0 THEN 0 ELSE FrAdd(FrSum(s, n - 1), s[n])

\* Horner's rule from coefficient j on
RECURSIVE FrPolyEvalFrom(_, _, _)
FrPolyEvalFrom(p, x, j) ==
    IF j > Len(p) THEN 0
    ELSE FrAdd(p[j], FrMul(x, FrPolyEvalFrom(p, x, j + 1)))

\* Polynomial::evaluate over Fr
FrPolyEval(p, x) == FrPolyEvalFrom(p, x, 1)

\* EvaluationDomain::fft: the coefficients resized to the size of the domain,
\* evaluated at every element of the domain
DomainFft(domain, coeffs) ==
    LET resized == Vec([j \in 1 .. Len(domain) |-> Coeff(coeffs, j)])
    IN  Vec([i \in 1 .. Len(domain) |-> FrPolyEval(resized, domain[i])])

\* EvaluationDomain::ifft: coefficient j is 1/n times the sum over i of
\* evals[i] * g^(-i*j); the evaluations are resized to the size of the domain
DomainIfft(domain, evals) ==
    LET n == Len(domain)
        n_inv == FrPow(n % Q, Q - 2)
        resized == Vec([i \in 1 .. n |-> Coeff(evals, i)])
    IN  Vec([j \in 1 .. n |->
                FrMul(n_inv,
                      FrSum([i \in 1 .. n |->
                                FrMul(resized[i],
                                      Element(domain, n - (((i - 1) * (j - 1)) % n)))],
                            n))])

\* DensePolynomial::from_coefficients_slice: trailing zeros are dropped
from_coefficients_slice(coeffs) == Truncate(coeffs)

\* Polynomial::degree (0 for the zero polynomial)
Degree(p) == IF Len(p) = 0 THEN 0 ELSE Len(p) - 1

\* a subtraction with the operands exchanged
FrPolySubReversed(p, q) ==
    Truncate(Vec([i \in 1 .. Max2(Len(p), Len(q)) |-> FrSub(Coeff(q, i), Coeff(p, i))]))

\* DensePolynomial - DensePolynomial over Fr
FrPolySub(p, q) ==
    Truncate(Vec([i \in 1 .. Max2(Len(p), Len(q)) |-> FrSub(Coeff(p, i), Coeff(q, i))]))

\* util::generate_sequence(r, a_s, c_s): for every i the c_s[i] values
\* a_s[i], a_s[i]*r, a_s[i]*r^2, ..., one segment after the other
RECURSIVE generate_sequence(_, _, _)
generate_sequence(r, a_s, c_s) ==
    IF a_s = << >> THEN << >>
    ELSE [k \in 1 .. Head(c_s) |-> FrMul(Head(a_s), FrPow(r, k - 1))]
         \o generate_sequence(r, Tail(a_s), Tail(c_s))

\* label_polynomial!(p) and LabeledPolynomial::new(label, p, None, None)
LabeledPolynomial(label, p) == [label |-> label, polynomial |-> p, degree_bound |-> None]

\* LabeledCommitment::new(label, commitment, None)
LabeledCommitment(label, c) == [label |-> label, commitment |-> c, degree_bound |-> None]

\* the trapdoor of the structured reference string over Fr
TauFr == 5

\* PC::commit(ck, polys, None): fails when a polynomial has more coefficients
\* than the committer key supports, otherwise one labeled commitment per
\* polynomial, the polynomial evaluated at the trapdoor
PCCommitFr(ck, polys) ==
    IF \E i \in 1 .. Len(polys) : Degree(polys[i].polynomial) > ck.supported_degree
    THEN Err("TooManyCoefficients")
    ELSE Ok([i \in 1 .. Len(polys) |->
                LabeledCommitment(polys[i].label, FrPolyEval(polys[i].polynomial, TauFr))])

\* PC::multi_scalar_mul: the sum of scalars[i] * commitments[i] in the group
multi_scalar_mul(comms, scalars) ==
    FrSum([i \in 1 .. Len(comms) |-> FrMul(scalars[i], comms[i].commitment)], Len(comms))

\* error::to_pc_error: the error of the commitment scheme wrapped as PCError
to_pc_error(r) == IF r.tag = "Err" THEN Err("PCError") ELSE r

\* Result::unwrap
Unwrap(r) == IF r.tag = "Ok" THEN r ELSE Panic

----------------------------------------------------------------------------
(* The subprotocols the proofs delegate to: ZeroOverK, GeoSeqTest and      *)
(* SubsetOverK                                                             *)

\* VirtualOracle::query of the square check (f - f'^2), the product check
\* (f - g*h) and the inverse check (1 - f*g) on evaluations in Fr
VOQueryFr(virtual_oracle, evals) ==
    CASE virtual_oracle = "square_check" ->
             FrSub(evals[1], FrMul(evals[2], evals[2]))
      [] virtual_oracle = "product_check" ->
             FrSub(evals[1], FrMul(evals[2], evals[3]))
      [] virtual_oracle = "inverse_check" ->
             FrSub(1, FrMul(evals[1], evals[2]))

\* the statement a ZeroOverK proof is bound to: the virtual oracle, the
\* commitments of the concrete oracles in order, the shifts and the domain
ZeroOverKStatement(commits, virtual_oracle, alphas, domain) ==
    [protocol |-> "Zero Over K",
     virtual_oracle |-> virtual_oracle,
     commitments |-> [i \in 1 .. Len(commits) |-> commits[i].commitment],
     alphas |-> alphas,
     domain |-> domain]

\* ZeroOverK::prove: Check1Failed unless the virtual oracle of the concrete
\* oracles, term i shifted by alphas[i], vanishes on every element of the
\* domain (the division by the vanishing polynomial leaves no remainder)
ZeroOverK_prove(concrete_oracles, commits, rands, virtual_oracle, alphas, domain) ==
    IF \A k \in 1 .. Len(domain) :
          VOQueryFr(virtual_oracle,
                    [i \in 1 .. Len(concrete_oracles) |->
                        FrPolyEval(concrete_oracles[i].polynomial,
                                   FrMul(alphas[i], domain[k]))]) = 0
    THEN Ok(ZeroOverKStatement(commits, virtual_oracle, alphas, domain))
    ELSE Err("Check1Failed")

\* ZeroOverK::verify: accepts the proof issued for these commitments, this
\* virtual oracle, these shifts and this domain
ZeroOverK_verify(proof, commits, virtual_oracle, domain, alphas) ==
    IF proof = ZeroOverKStatement(commits, virtual_oracle, alphas, domain)
    THEN Ok(<< >>)
    ELSE Err("Check2Failed")

\* the number of concrete oracles a virtual oracle is defined over
num_of_oracles(virtual_oracle) ==
    CASE virtual_oracle = "square_check" -> 2
      [] virtual_oracle = "product_check" -> ProductCheckVO_num_of_oracles
      [] virtual_oracle = "inverse_check" -> 2

\* the lists a caller hands to ZeroOverK::prove (the verifier hands over the
\* commitments, the virtual oracle and the shifts, and no oracles or
\* randomness)
ZeroOverKCall(concrete_oracles, commits, rands, virtual_oracle, alphas) ==
    [concrete_oracles |-> concrete_oracles, commitments |-> commits, rands |-> rands,
     virtual_oracle |-> virtual_oracle, alphas |-> alphas]

ZeroOverK_prove_call(call, domain) ==
    ZeroOverK_prove(call.concrete_oracles, call.commitments, call.rands,
                    call.virtual_oracle, call.alphas, domain)

ZeroOverK_verify_call(proof, call, domain) ==
    ZeroOverK_verify(proof, call.commitments, call.virtual_oracle, domain, call.alphas)

\* the statement a GeoSeqTest proof is bound to; h_commit is None when the
\* caller hands no commitment of h over
GeoSeqStatement(r, h_commit, a_s, c_s, domain) ==
    [protocol |-> "Geometric Sequence Test", r |-> r, h_commit |-> h_commit,
     a_s |-> a_s, c_s |-> c_s, domain |-> domain]

\* GeoSeqTest::prove: T2Large when the segments do not fit the domain,
\* Check1Failed unless the evaluations of h on the domain are the sequence
\* the segments declare
GeoSeqTest_prove(r, h, h_commit, a_s, c_s, domain) ==
    IF FrSum(c_s, Len(c_s)) > Len(domain) THEN Err("T2Large")
    ELSE IF DomainFft(domain, h.polynomial) = generate_sequence(r, a_s, c_s)
         THEN Ok(GeoSeqStatement(r, h_commit, a_s, c_s, domain))
         ELSE Err("Check1Failed")

\* GeoSeqTest::verify: accepts the proof issued for the same ratio, segments,
\* domain and commitment of h
GeoSeqTest_verify(r, a_s, c_s, domain, h_commit, proof) ==
    IF proof = GeoSeqStatement(r, h_commit, a_s, c_s, domain)
    THEN Ok(<< >>)
    ELSE Err("Check2Failed")

\* SubsetOverK::prove(): takes nothing and returns an empty proof
SubsetOverK_prove == [protocol |-> "Subset over K"]

\* SubsetOverK::verify(proof): succeeds
SubsetOverK_verify(proof) == Ok(<< >>)

----------------------------------------------------------------------------
(* The outcome of a prove or verify call: what it returned, the transcript *)
(* it left behind and the steps it went through                            *)

\* a let binding of the code: v is computed once and the rest, Op, goes on
\* with its value
With(v, Op(_)) == CHOOSE r \in {Op(x) : x \in {v}} : TRUE

\* an outcome that also shows the oracles the prover built
OutcomeWith(r, rng, done, built) ==
    [result |-> r, fs_rng |-> rng, steps |-> done, oracles |-> built]

Outcome(r, rng, done) == OutcomeWith(r, rng, done, << >>)

\* the position of the first entry of subs that did not return Ok, 0 when
\* all did: where the ? operator returns from the function
RECURSIVE FirstFailureFrom(_, _)
FirstFailureFrom(subs, i) ==
    IF i > Len(subs) THEN 0
    ELSE IF subs[i].result.tag # "Ok" THEN i
    ELSE FirstFailureFrom(subs, i + 1)

\* a search that passes over the first entry
FirstFailureAfterFirst(subs) == FirstFailureFrom(subs, 2)

FirstFailure(subs) == FirstFailureFrom(subs, 1)

\* the names of the entries of subs that were run: all of them, or those up
\* to the first failure
StepsRun(subs) ==
    LET k == FirstFailure(subs)
    IN  [i \in 1 .. (IF k = 0 THEN Len(subs) ELSE k) |-> subs[i].step]

Step(name, r) == [step |-> name, result |-> r]

----------------------------------------------------------------------------
(* non_zero_over_k/mod.rs *)

\* the randomness PC::commit returns with the commitments when it is given no
\* rng: one empty randomness per commitment
PCCommitRands(commits) == [i \in 1 .. Len(commits) |-> Empty]

\* the lists NonZeroOverK::prove hands to ZeroOverK::prove: the oracles (f, g),
\* their commitments and randomness as PC::commit returned them, the inverse
\* check and the shifts (1, 1)
NonZeroOverK_prove_zero_over_k_call(concrete_oracles, commits, rands) ==
    ZeroOverKCall(concrete_oracles, commits, rands, "inverse_check", <<1, 1>>)

\* the lists NonZeroOverK::verify hands to ZeroOverK::verify: the commitment
\* of f, that of g taken from the proof, the inverse check and the shifts
\* (1, 1)
NonZeroOverK_verify_zero_over_k_call(f_commit, proof) ==
    ZeroOverKCall(<< >>, <<f_commit, LabeledCommitment("g", proof.g_commit)>>, << >>,
                  "inverse_check", <<1, 1>>)

\* a prover that puts the commitment of f in the place of that of g
NonZeroOverK_prove_with_f_commit(ck, domain, f) ==
    LET f_evals == DomainFft(domain, f.polynomial)
    IN  IF \E i \in 1 .. Len(f_evals) : FrInverse(f_evals[i]) = None
        THEN Outcome(Panic, << >>, << >>)
        ELSE
        LET g_evals == Vec([i \in 1 .. Len(f_evals) |-> FrInverse(f_evals[i])[1]])
            g == LabeledPolynomial("g", from_coefficients_slice(DomainIfft(domain, g_evals)))
            concrete_oracles == <<f, g>>
            alphas == <<1, 1>>
            committed == to_pc_error(PCCommitFr(ck, concrete_oracles))
        IN  IF committed.tag # "Ok"
            THEN OutcomeWith(committed, << >>, <<"PC::commit">>, <<g>>)
            ELSE
            LET commits == committed.value
                rands == [i \in 1 .. Len(commits) |-> Empty]
                zero_over_k_proof ==
                    ZeroOverK_prove(concrete_oracles, commits, rands,
                                    "inverse_check", alphas, domain)
            IN  IF zero_over_k_proof.tag # "Ok"
                THEN OutcomeWith(zero_over_k_proof, << >>,
                                 <<"PC::commit", "ZeroOverK::prove">>, <<g>>)
                ELSE OutcomeWith(Ok([g_commit |-> commits[1].commitment,
                                     zero_over_k_proof |-> zero_over_k_proof.value]),
                                 << >>, <<"PC::commit", "ZeroOverK::prove">>, <<g>>)

\* NonZeroOverK::prove: the inverse of every evaluation is unwrapped, g is
\* interpolated from the inverses, f and g are committed and ZeroOverK is
\* proved for the inverse check on (f, g)
NonZeroOverK_prove(ck, domain, f) ==
    LET f_evals == DomainFft(domain, f.polynomial)
    IN  IF \E i \in 1 .. Len(f_evals) : FrInverse(f_evals[i]) = None
        THEN Outcome(Panic, << >>, << >>)
        ELSE
        LET g_evals == Vec([i \in 1 .. Len(f_evals) |-> FrInverse(f_evals[i])[1]])
            g == LabeledPolynomial("g", from_coefficients_slice(DomainIfft(domain, g_evals)))
            concrete_oracles == <<f, g>>
            committed == to_pc_error(PCCommitFr(ck, concrete_oracles))
        IN  IF committed.tag # "Ok"
            THEN OutcomeWith(committed, << >>, <<"PC::commit">>, <<g>>)
            ELSE
            LET commits == committed.value
                rands == PCCommitRands(commits)
                zero_over_k_proof ==
                    ZeroOverK_prove_call(
                        NonZeroOverK_prove_zero_over_k_call(concrete_oracles, commits, rands),
                        domain)
            IN  IF zero_over_k_proof.tag # "Ok"
                THEN OutcomeWith(zero_over_k_proof, << >>,
                                 <<"PC::commit", "ZeroOverK::prove">>, <<g>>)
                ELSE OutcomeWith(Ok([g_commit |-> commits[2].commitment,
                                     zero_over_k_proof |-> zero_over_k_proof.value]),
                                 << >>, <<"PC::commit", "ZeroOverK::prove">>, <<g>>)

\* NonZeroOverK::verify: g's commitment is taken from the proof and ZeroOverK
\* is verified for the inverse check on the commitments of (f, g)
NonZeroOverK_verify(domain, f_commit, proof) ==
    Outcome(ZeroOverK_verify_call(proof.zero_over_k_proof,
                                  NonZeroOverK_verify_zero_over_k_call(f_commit, proof),
                                  domain),
            << >>, <<"ZeroOverK::verify">>)

----------------------------------------------------------------------------
(* discrete_log_comparison/piop: the oracles of the prover's first round   *)

\* the discrete logarithm of x to the base of the generator of the domain
DLog(domain, x) == (CHOOSE i \in 1 .. Len(domain) : domain[i] = x) - 1

\* the square root of x in the image of h: delta^i for x = omega^i, 0 <= i < |H|
RootInImageOfH(domain_h, delta, x) == FrPow(delta, DLog(domain_h, x))

\* the geometric sequence of h: 1, delta, ..., delta^(|H|-1), then zeros up to |K|
PIOP_h_evals(domain_k, domain_h, delta) ==
    Vec([k \in 1 .. Len(domain_k) |-> IF k <= Len(domain_h) THEN FrPow(delta, k - 1) ELSE 0])

\* prover_init and prover_first_round for f and g with evaluations in H: the
\* oracles s = f/g, f', g', s' (the square roots of f, g, s in the image of h)
\* and h, interpolated over K, in the order s, f_prime, g_prime, s_prime, h
PIOP_prover_first_round(domain_k, domain_h, f, g) ==
    LET delta == FrSqrt(Element(domain_h, 1))[1]
        f_evals == DomainFft(domain_k, f.polynomial)
        g_evals == DomainFft(domain_k, g.polynomial)
        s_evals == Vec([k \in 1 .. Len(domain_k) |->
                           FrMul(f_evals[k], FrInverse(g_evals[k])[1])])
        Prime(evals) == Vec([k \in 1 .. Len(domain_k) |->
                                RootInImageOfH(domain_h, delta, evals[k])])
        Interpolate(label, evals) ==
            LabeledPolynomial(label, from_coefficients_slice(DomainIfft(domain_k, evals)))
    IN  <<Interpolate("s", s_evals),
          Interpolate("f_prime", Prime(f_evals)),
          Interpolate("g_prime", Prime(g_evals)),
          Interpolate("s_prime", Prime(s_evals)),
          Interpolate("h", PIOP_h_evals(domain_k, domain_h, delta))>>

----------------------------------------------------------------------------
(* discrete_log_comparison/mod.rs *)

DLComparison_PROTOCOL_NAME == "Discrete-log Comparison"

\* the bytes of to_bytes![PROTOCOL_NAME, commitments]: the name, then every
\* commitment in order
DLComparison_absorbed(commits) ==
    <<DLComparison_PROTOCOL_NAME>> \o [i \in 1 .. Len(commits) |-> commits[i].commitment]

\* the segments the prover declares for h: 1 with length |H|, and zeros up to
\* |K| when |K| > |H|
DLComparison_prove_segments(domain_k, domain_h) ==
    LET to_pad == Len(domain_k) - Len(domain_h)
    IN  IF to_pad > 0
        THEN [a_s |-> <<1, 0>>, c_s |-> <<Len(domain_h), to_pad>>]
        ELSE [a_s |-> <<1>>, c_s |-> <<Len(domain_h)>>]

\* the lists DLComparison::prove hands to its four ZeroOverK::prove calls, in
\* order: the square checks on (f, f'), (g, g') and (s, s') and the product
\* check on (f', s', g'), each with empty randomness and shifts of 1
DLComparison_prove_zero_over_k_calls(f, g, f_commit, g_commit, oracles, commits) ==
    LET s == oracles[1]
        f_prime == oracles[2]
        g_prime == oracles[3]
        s_prime == oracles[4]
    IN  <<ZeroOverKCall(<<f, f_prime>>, <<f_commit, commits[2]>>, <<Empty, Empty>>,
                        "square_check", <<1, 1>>),
          ZeroOverKCall(<<g, g_prime>>, <<g_commit, commits[3]>>, <<Empty, Empty>>,
                        "square_check", <<1, 1>>),
          ZeroOverKCall(<<s, s_prime>>, <<commits[1], commits[4]>>, <<Empty, Empty>>,
                        "square_check", <<1, 1>>),
          ZeroOverKCall(<<f_prime, s_prime, g_prime>>,
                        <<commits[2], commits[4], commits[3]>>,
                        <<Empty, Empty, Empty>>, "product_check", <<1, 1, 1>>)>>

\* the proofs DLComparison::prove asks for after the commitments, in order
DLComparison_prove_steps(ck, domain_k, domain_h, f, g, f_commit, g_commit, oracles, commits) ==
    LET s == oracles[1]
        f_prime == oracles[2]
        g_prime == oracles[3]
        s_prime == oracles[4]
        h == oracles[5]
        calls == DLComparison_prove_zero_over_k_calls(f, g, f_commit, g_commit,
                                                      oracles, commits)
        delta == FrSqrt(Element(domain_h, 1))
        segments == DLComparison_prove_segments(domain_k, domain_h)
        s_minus_one ==
            LabeledPolynomial("s_minus_one", FrPolySub(s.polynomial, <<1>>))
    IN  <<Step("f_prime_square_proof", ZeroOverK_prove_call(calls[1], domain_k)),
          Step("g_prime_square_proof", ZeroOverK_prove_call(calls[2], domain_k)),
          Step("s_prime_square_proof", ZeroOverK_prove_call(calls[3], domain_k)),
          Step("f_prime_product_proof", ZeroOverK_prove_call(calls[4], domain_k)),
          Step("h_proof",
               IF delta = None THEN Panic
               ELSE GeoSeqTest_prove(delta[1], h, None, segments.a_s, segments.c_s,
                                     domain_k)),
          Step("nzk_f_prime_proof", NonZeroOverK_prove(ck, domain_k, f_prime).result),
          Step("nzk_g_prime_proof", NonZeroOverK_prove(ck, domain_k, g_prime).result),
          Step("nzk_s_prime_proof", NonZeroOverK_prove(ck, domain_k, s_prime).result),
          Step("nzk_s_minus_one_proof", NonZeroOverK_prove(ck, domain_k, s_minus_one).result)>>

\* DLComparison::prove: the first-round oracles are committed (the result
\* unwrapped) and absorbed with the protocol name, then the nine proofs are
\* produced in order, the first failure returned
DLComparison_prove(ck, domain_k, domain_h, f, g, f_commit, g_commit, fs_rng) ==
    With(PIOP_prover_first_round(domain_k, domain_h, f, g), LAMBDA oracles :
    With(Unwrap(PCCommitFr(ck, oracles)), LAMBDA committed :
        IF committed.tag # "Ok"
        THEN OutcomeWith(Panic, fs_rng, <<"PC::commit">>, oracles)
        ELSE
        With(committed.value, LAMBDA commits :
        With(DLComparison_prove_steps(ck, domain_k, domain_h, f, g,
                                      f_commit, g_commit, oracles, commits), LAMBDA subs :
        With(FirstFailure(subs), LAMBDA failed :
            OutcomeWith(
                IF failed # 0 THEN subs[failed].result
                ELSE Ok([s_commit |-> commits[1].commitment,
                         f_prime_commit |-> commits[2].commitment,
                         g_prime_commit |-> commits[3].commitment,
                         s_prime_commit |-> commits[4].commitment,
                         h_commit |-> commits[5].commitment,
                         f_prime_square_proof |-> subs[1].result.value,
                         g_prime_square_proof |-> subs[2].result.value,
                         s_prime_square_proof |-> subs[3].result.value,
                         f_prime_product_proof |-> subs[4].result.value,
                         h_proof |-> subs[5].result.value,
                         nzk_f_prime_proof |-> subs[6].result.value,
                         nzk_g_prime_proof |-> subs[7].result.value,
                         nzk_s_prime_proof |-> subs[8].result.value,
                         nzk_s_minus_one_proof |-> subs[9].result.value]),
                Append(fs_rng, DLComparison_absorbed(commits)),
                <<"PC::commit", "absorb">> \o StepsRun(subs),
                oracles))))))

\* segments that are padded only when two or more zeros are missing
DLComparison_verify_segments_late_padding(domain_k, domain_h) ==
    LET to_pad == Len(domain_k) - Len(domain_h)
    IN  IF to_pad > 2
        THEN [a_s |-> <<1, 0>>, c_s |-> <<Len(domain_h), to_pad>>]
        ELSE [a_s |-> <<1>>, c_s |-> <<Len(domain_h)>>]

\* the segments the verifier declares for h
DLComparison_verify_segments(domain_k, domain_h) ==
    LET to_pad == Len(domain_k) - Len(domain_h)
    IN  IF to_pad > 0
        THEN [a_s |-> <<1, 0>>, c_s |-> <<Len(domain_h), to_pad>>]
        ELSE [a_s |-> <<1>>, c_s |-> <<Len(domain_h)>>]

\* a verifier that lists the commitments of the product check in the order
\* they were committed: f', g', s'
DLComparison_verify_zero_over_k_calls_as_committed(f_commit, g_commit, commits) ==
    <<ZeroOverKCall(<< >>, <<f_commit, commits[2]>>, << >>, "square_check", <<1, 1>>),
      ZeroOverKCall(<< >>, <<g_commit, commits[3]>>, << >>, "square_check", <<1, 1>>),
      ZeroOverKCall(<< >>, <<commits[1], commits[4]>>, << >>, "square_check", <<1, 1>>),
      ZeroOverKCall(<< >>, <<commits[2], commits[3], commits[4]>>, << >>,
                    "product_check", <<1, 1, 1>>)>>

\* the lists DLComparison::verify hands to its four ZeroOverK::verify calls,
\* in order
DLComparison_verify_zero_over_k_calls(f_commit, g_commit, commits) ==
    <<ZeroOverKCall(<< >>, <<f_commit, commits[2]>>, << >>, "square_check", <<1, 1>>),
      ZeroOverKCall(<< >>, <<g_commit, commits[3]>>, << >>, "square_check", <<1, 1>>),
      ZeroOverKCall(<< >>, <<commits[1], commits[4]>>, << >>, "square_check", <<1, 1>>),
      ZeroOverKCall(<< >>, <<commits[2], commits[4], commits[3]>>, << >>,
                    "product_check", <<1, 1, 1>>)>>

\* the checks DLComparison::verify makes after absorbing, in order; the
\* commitment of s - 1 is derived from that of s and a commitment of 1
DLComparison_verify_steps(ck, domain_k, domain_h, f_commit, g_commit, proof, commits) ==
    LET delta == FrSqrt(Element(domain_h, 1))
        segments == DLComparison_verify_segments(domain_k, domain_h)
        one_poly == LabeledPolynomial("one_poly", <<1>>)
        commit_to_one == Unwrap(PCCommitFr(ck, <<one_poly>>))
        calls == DLComparison_verify_zero_over_k_calls(f_commit, g_commit, commits)
    IN  <<Step("f_prime_square_proof",
               ZeroOverK_verify_call(proof.f_prime_square_proof, calls[1], domain_k)),
          Step("g_prime_square_proof",
               ZeroOverK_verify_call(proof.g_prime_square_proof, calls[2], domain_k)),
          Step("s_prime_square_proof",
               ZeroOverK_verify_call(proof.s_prime_square_proof, calls[3], domain_k)),
          Step("f_prime_product_proof",
               ZeroOverK_verify_call(proof.f_prime_product_proof, calls[4], domain_k)),
          Step("h_proof",
               IF delta = None THEN Panic
               ELSE GeoSeqTest_verify(delta[1], segments.a_s, segments.c_s, domain_k,
                                      None, proof.h_proof)),
          Step("nzk_f_prime_proof",
               NonZeroOverK_verify(domain_k, commits[2], proof.nzk_f_prime_proof).result),
          Step("nzk_g_prime_proof",
               NonZeroOverK_verify(domain_k, commits[3], proof.nzk_g_prime_proof).result),
          Step("nzk_s_prime_proof",
               NonZeroOverK_verify(domain_k, commits[4], proof.nzk_s_prime_proof).result),
          Step("PC::commit", commit_to_one),
          Step("nzk_s_minus_one_proof",
               IF commit_to_one.tag # "Ok" THEN Panic
               ELSE NonZeroOverK_verify(
                        domain_k,
                        LabeledCommitment(
                            "s_minus_one",
                            multi_scalar_mul(<<commits[1], commit_to_one.value[1]>>,
                                             <<1, FrSub(0, 1)>>)),
                        proof.nzk_s_minus_one_proof).result)>>

\* a verifier that absorbs the protocol name and the commitments one after the
\* other
DLComparison_verify_absorbing_twice(ck, domain_k, domain_h, f_commit, g_commit, proof, fs_rng) ==
    LET commits == <<LabeledCommitment("s", proof.s_commit),
                     LabeledCommitment("f_prime", proof.f_prime_commit),
                     LabeledCommitment("g_prime", proof.g_prime_commit),
                     LabeledCommitment("s_prime", proof.s_prime_commit),
                     LabeledCommitment("h", proof.h_commit)>>
        rng == Append(Append(fs_rng, <<DLComparison_PROTOCOL_NAME>>),
                      Tail(DLComparison_absorbed(commits)))
        subs == DLComparison_verify_steps(ck, domain_k, domain_h, f_commit, g_commit,
                                          proof, commits)
        failed == FirstFailure(subs)
    IN  Outcome(IF failed # 0 THEN subs[failed].result ELSE Ok(<< >>),
                rng,
                <<"absorb", "absorb">> \o StepsRun(subs))

\* DLComparison::verify: the five commitments of the proof are labeled and
\* absorbed with the protocol name, then the checks are made in order, the
\* first failure returned
DLComparison_verify(ck, domain_k, domain_h, f_commit, g_commit, proof, fs_rng) ==
    LET commits == <<LabeledCommitment("s", proof.s_commit),
                     LabeledCommitment("f_prime", proof.f_prime_commit),
                     LabeledCommitment("g_prime", proof.g_prime_commit),
                     LabeledCommitment("s_prime", proof.s_prime_commit),
                     LabeledCommitment("h", proof.h_commit)>>
        rng == Append(fs_rng, DLComparison_absorbed(commits))
        subs == DLComparison_verify_steps(ck, domain_k, domain_h, f_commit, g_commit,
                                          proof, commits)
        failed == FirstFailure(subs)
    IN  Outcome(IF failed # 0 THEN subs[failed].result ELSE Ok(<< >>),
                rng,
                <<"absorb">> \o StepsRun(subs))

----------------------------------------------------------------------------
(* t_strictly_lower_triangular_test/mod.rs *)

TStrictlyLowerTriangular_PROTOCOL_NAME == "t-Strictly Lower Triangular Test"

\* a check that also rejects t = |H|
T2LargeFromH(t, domain_h) == t >= Len(domain_h)

\* the check of the prover: t > domain_h.size()
T2Large(t, domain_h) == t > Len(domain_h)

\* segments without the padding
TStrictlyLowerTriangular_prove_segments_unpadded(t, domain_k, domain_h) ==
    [a_s |-> <<Element(domain_h, t)>>, c_s |-> <<Len(domain_h) - t>>]

\* the segments the prover declares for h: omega^t with length |H| - t, and
\* zeros up to |K| when any are left
TStrictlyLowerTriangular_prove_segments(t, domain_k, domain_h) ==
    LET to_pad == Len(domain_k) - (Len(domain_h) - t)
    IN  IF to_pad > 0
        THEN [a_s |-> <<Element(domain_h, t), 0>>, c_s |-> <<Len(domain_h) - t, to_pad>>]
        ELSE [a_s |-> <<Element(domain_h, t)>>, c_s |-> <<Len(domain_h) - t>>]

\* a call of DLComparison with the column in the place of f and the row in
\* that of g
TStrictlyLowerTriangular_dl_operands_column_first(row, col) == <<col, row>>

\* the operands TStrictlyLowerTriangular hands to DLComparison, as (f, g):
\* the row, then the column
TStrictlyLowerTriangular_dl_operands(row, col) == <<row, col>>

\* TStrictlyLowerTriangular::prove: the protocol name is absorbed, t is
\* compared with |H|, h is interpolated and committed (the result unwrapped),
\* then GeoSeqTest on h, SubsetOverK and DLComparison on (row, col) are proved
TStrictlyLowerTriangular_prove(ck, t, domain_k, domain_h, row_poly, col_poly, row_commit, col_commit, fs_rng) ==
    LET rng == Append(fs_rng, <<TStrictlyLowerTriangular_PROTOCOL_NAME>>)
        r == Element(domain_h, 1)
    IN  IF T2Large(t, domain_h) THEN Outcome(Err("T2Large"), rng, <<"absorb">>)
        ELSE
        LET segments == TStrictlyLowerTriangular_prove_segments(t, domain_k, domain_h)
            seq == generate_sequence(r, segments.a_s, segments.c_s)
            h == LabeledPolynomial("h", from_coefficients_slice(DomainIfft(domain_k, seq)))
            committed == Unwrap(PCCommitFr(ck, <<h>>))
        IN  IF committed.tag # "Ok"
            THEN OutcomeWith(Panic, rng, <<"absorb", "PC::commit">>, <<h>>)
            ELSE
            LET h_commit == committed.value[1]
                geo_seq_proof ==
                    GeoSeqTest_prove(r, h, h_commit.commitment, segments.a_s,
                                     segments.c_s, domain_k)
            IN  IF geo_seq_proof.tag # "Ok"
                THEN OutcomeWith(geo_seq_proof, rng,
                                 <<"absorb", "PC::commit", "GeoSeqTest::prove">>, <<h>>)
                ELSE
                With(SubsetOverK_prove, LAMBDA subset_proof :
                With(DLComparison_prove(
                         ck, domain_k, domain_h,
                         TStrictlyLowerTriangular_dl_operands(row_poly, col_poly)[1],
                         TStrictlyLowerTriangular_dl_operands(row_poly, col_poly)[2],
                         TStrictlyLowerTriangular_dl_operands(row_commit, col_commit)[1],
                         TStrictlyLowerTriangular_dl_operands(row_commit, col_commit)[2],
                         rng), LAMBDA dl :
                    OutcomeWith(
                        IF dl.result.tag # "Ok" THEN dl.result
                        ELSE Ok([h_commit |-> h_commit.commitment,
                                 dl_proof |-> dl.result.value,
                                 geo_seq_proof |-> geo_seq_proof.value,
                                 subset_proof |-> subset_proof]),
                        dl.fs_rng,
                        <<"absorb", "PC::commit", "GeoSeqTest::prove",
                          "SubsetOverK::prove", "DLComparison::prove">>,
                        <<h>> \o dl.oracles)))

\* the width of usize in the model
UsizeBits == 16

\* a - b on usize where overflow is not checked: the difference wraps around
wrapping_sub(a, b) == (a - b) % (2 ^ UsizeBits)

\* segments whose zeros start one place late
TStrictlyLowerTriangular_verify_segments_shortened(t, domain_k, domain_h) ==
    LET to_pad == wrapping_sub(Len(domain_k), wrapping_sub(Len(domain_h), t))
    IN  IF to_pad > 1
        THEN [a_s |-> <<Element(domain_h, t), 0>>,
              c_s |-> <<wrapping_sub(Len(domain_h), t), to_pad - 1>>]
        ELSE [a_s |-> <<Element(domain_h, t)>>, c_s |-> <<wrapping_sub(Len(domain_h), t)>>]

\* the segments the verifier declares for h; the two subtractions are made
\* on usize, without a comparison of t with |H| before them
TStrictlyLowerTriangular_verify_segments(t, domain_k, domain_h) ==
    LET to_pad == wrapping_sub(Len(domain_k), wrapping_sub(Len(domain_h), t))
    IN  IF to_pad > 0
        THEN [a_s |-> <<Element(domain_h, t), 0>>,
              c_s |-> <<wrapping_sub(Len(domain_h), t), to_pad>>]
        ELSE [a_s |-> <<Element(domain_h, t)>>, c_s |-> <<wrapping_sub(Len(domain_h), t)>>]

\* TStrictlyLowerTriangular::verify: GeoSeqTest on the commitment of h taken
\* from the proof, SubsetOverK and DLComparison on the commitments of
\* (row, col) are verified in order; nothing is absorbed and t is not compared
\* with |H|: for t > |H| the subtraction |H| - t overflows, which panics in a
\* build with overflow checks (debug, test) and wraps around in one without
\* (release); overflow_checks tells the build
TStrictlyLowerTriangular_verify(ck, t, domain_k, domain_h, row_commit, col_commit, proof, fs_rng, overflow_checks) ==
    IF overflow_checks /\ (t > Len(domain_h) \/ Len(domain_h) - t > Len(domain_k))
    THEN Outcome(Panic, fs_rng, << >>)
    ELSE
    LET segments == TStrictlyLowerTriangular_verify_segments(t, domain_k, domain_h)
        h_commit == LabeledCommitment("h", proof.h_commit)
        geo == GeoSeqTest_verify(Element(domain_h, 1), segments.a_s, segments.c_s,
                                 domain_k, h_commit.commitment, proof.geo_seq_proof)
    IN  IF geo.tag # "Ok" THEN Outcome(geo, fs_rng, <<"GeoSeqTest::verify">>)
        ELSE
        LET subset == SubsetOverK_verify(proof.subset_proof)
        IN  IF subset.tag # "Ok"
            THEN Outcome(subset, fs_rng, <<"GeoSeqTest::verify", "SubsetOverK::verify">>)
            ELSE
            LET dl == DLComparison_verify(
                          ck, domain_k, domain_h,
                          TStrictlyLowerTriangular_dl_operands(row_commit, col_commit)[1],
                          TStrictlyLowerTriangular_dl_operands(row_commit, col_commit)[2],
                          proof.dl_proof, fs_rng)
            IN  Outcome(dl.result, dl.fs_rng,
                        <<"GeoSeqTest::verify", "SubsetOverK::verify",
                          "DLComparison::verify">>)

----------------------------------------------------------------------------
(* Inputs of the proofs of function relation *)

\* the largest t asked for
MaxT == 5

\* the largest number of distinct entries of the matrix: the evaluations of
\* row and col on K are the entries in order, the last one repeated up to |K|
MaxEntries == 2

\* the sizes asked of GeneralEvaluationDomain::new for (H, K)
DomainSizes == {<<4, 4>>, <<2, 4>>}

\* sample entries (r, c): row value omega^r and column value omega^c
EntrySamples == {<<2, 0>>, <<3, 1>>, <<3, 2>>, <<2, 2>>, <<1, 0>>, <<1, 2>>}

\* the degrees a committer key supports: that of the tests, and one too small
\* for most polynomials over K
SupportedDegrees == {20, 1}

CommitterKeys == [supported_degree : SupportedDegrees]

\* FiatShamirRng::from_seed
from_seed(seed) == <<<<seed>>>>

Seed == "Testing :)"

\* the evaluations on K of the entries, the last entry repeated
PaddedEvals(domain_k, domain_h, entries, coordinate) ==
    Vec([k \in 1 .. Len(domain_k) |->
            Element(domain_h,
                    entries[IF k <= Len(entries) THEN k ELSE Len(entries)][coordinate])])

EntryLists == UNION {[1 .. n -> EntrySamples] : n \in 1 .. MaxEntries}

\* the commitment the tests make of a polynomial, with a key that supports it
TestCommit(poly) == LabeledCommitment(poly.label, FrPolyEval(poly.polynomial, TauFr))

\* the arguments of prove and verify for a matrix given by its entries
MatrixArgs(ck, t, sizes, entries) ==
    LET domain_h == NewDomain(sizes[1])
        domain_k == NewDomain(sizes[2])
        row_poly == LabeledPolynomial("row_poly", from_coefficients_slice(
                        DomainIfft(domain_k, PaddedEvals(domain_k, domain_h, entries, 1))))
        col_poly == LabeledPolynomial("col_poly", from_coefficients_slice(
                        DomainIfft(domain_k, PaddedEvals(domain_k, domain_h, entries, 2))))
    IN  [ck |-> ck, t |-> t, domain_k |-> domain_k, domain_h |-> domain_h,
         row_poly |-> row_poly, col_poly |-> col_poly,
         row_commit |-> TestCommit(row_poly), col_commit |-> TestCommit(col_poly),
         fs_rng |-> from_seed(Seed)]

\* sample evaluations of the polynomial handed to NonZeroOverK
NonZeroSamples == {0, 1, 3}

NonZeroDomainSizes == {2, 4}

InitProof ==
    /\ pc = "idle"
    /\ op = "none"
    /\ polynomials = << >>
    /\ commitments = << >>
    /\ hiding_rands = << >>
    /\ lc = [label |-> "a_plus_b", terms |-> << >>]
    /\ vo = NoResult
    /\ args = << >>
    /\ result = NoResult
    /\ prover = NoResult
    /\ verifier = NoResult

\* the proofs touch neither the commitment layer of zero_over_k nor a virtual
\* oracle value
OthersUnchanged == UNCHANGED <<polynomials, commitments, hiding_rands, lc, vo>>

Call_NonZeroOverK_prove ==
    /\ pc = "idle"
    /\ \E ck \in CommitterKeys, size \in NonZeroDomainSizes :
       \E evals \in [1 .. size -> NonZeroSamples] :
        LET domain == NewDomain(size)
            f == LabeledPolynomial("f", from_coefficients_slice(DomainIfft(domain, evals)))
        IN  /\ args' = [ck |-> ck, domain |-> domain, f |-> f, f_commit |-> TestCommit(f)]
            /\ prover' = NonZeroOverK_prove(ck, domain, f)
    /\ result' = prover'.result
    /\ op' = "NonZeroOverK::prove"
    /\ pc' = "proved"
    /\ UNCHANGED verifier
    /\ OthersUnchanged

Proved(f) == pc = "proved" /\ op = f /\ prover.result.tag = "Ok"

Call_NonZeroOverK_verify ==
    /\ Proved("NonZeroOverK::prove")
    /\ verifier' = NonZeroOverK_verify(args.domain, args.f_commit, prover.result.value)
    /\ result' = verifier'.result
    /\ op' = "NonZeroOverK::verify"
    /\ pc' = "done"
    /\ UNCHANGED <<args, prover>>
    /\ OthersUnchanged

Call_DLComparison_prove ==
    /\ pc = "idle"
    /\ \E ck \in CommitterKeys, sizes \in DomainSizes, entries \in EntryLists :
        LET a == MatrixArgs(ck, 0, sizes, entries)
        IN  /\ args' = a
            /\ prover' = DLComparison_prove(a.ck, a.domain_k, a.domain_h,
                                            a.row_poly, a.col_poly,
                                            a.row_commit, a.col_commit, a.fs_rng)
    /\ result' = prover'.result
    /\ op' = "DLComparison::prove"
    /\ pc' = "proved"
    /\ UNCHANGED verifier
    /\ OthersUnchanged

\* the sub-proofs of a DLComparison proof
DLComparison_sub_proofs ==
    {"f_prime_square_proof", "g_prime_square_proof", "s_prime_square_proof",
     "f_prime_product_proof", "h_proof", "nzk_f_prime_proof", "nzk_g_prime_proof",
     "nzk_s_prime_proof", "nzk_s_minus_one_proof"}

\* the largest number of sub-proofs of a proof that are forged at once
MaxForged == 2

ForgedSets == {fields \in SUBSET DLComparison_sub_proofs : Cardinality(fields) <= MaxForged}

\* a sub-proof that proves nothing
Forged == [protocol |-> "forged", g_commit |-> 0, zero_over_k_proof |-> << >>]

\* the proof with the sub-proofs named by fields forged and h_commit moved by
\* shift
Forge(proof, fields, shift) ==
    [x \in DOMAIN proof |->
        IF x \in fields THEN Forged
        ELSE IF x = "h_commit" THEN FrAdd(proof[x], shift)
        ELSE proof[x]]

\* the transcripts a verifier is handed: the one of the tests, and one that
\* has absorbed something else before
IncomingTranscripts == {from_seed(Seed), Append(from_seed(Seed), <<"earlier">>)}

\* DLComparison::verify on the proof of the prover, or on that proof with some
\* sub-proofs forged or h_commit changed, with one of the transcripts
Call_DLComparison_verify ==
    /\ Proved("DLComparison::prove")
    /\ \E fields \in ForgedSets, shift \in {0, 1}, rng \in IncomingTranscripts :
        \E proof \in {Forge(prover.result.value, fields, shift)} :
        /\ verifier' = DLComparison_verify(args.ck, args.domain_k, args.domain_h,
                                           args.row_commit, args.col_commit, proof, rng)
        /\ args' = [ck |-> args.ck, t |-> args.t,
                    domain_k |-> args.domain_k, domain_h |-> args.domain_h,
                    row_poly |-> args.row_poly, col_poly |-> args.col_poly,
                    row_commit |-> args.row_commit, col_commit |-> args.col_commit,
                    fs_rng |-> args.fs_rng,
                    proof |-> proof, forged |-> fields, verifier_fs_rng |-> rng]
    /\ result' = verifier'.result
    /\ op' = "DLComparison::verify"
    /\ pc' = "done"
    /\ UNCHANGED prover
    /\ OthersUnchanged

Call_TStrictlyLowerTriangular_prove ==
    /\ pc = "idle"
    /\ \E ck \in CommitterKeys, t \in 0 .. MaxT, sizes \in DomainSizes,
          entries \in EntryLists :
        LET a == MatrixArgs(ck, t, sizes, entries)
        IN  /\ args' = a
            /\ prover' = TStrictlyLowerTriangular_prove(
                             a.ck, a.t, a.domain_k, a.domain_h, a.row_poly, a.col_poly,
                             a.row_commit, a.col_commit, a.fs_rng)
    /\ result' = prover'.result
    /\ op' = "TStrictlyLowerTriangular::prove"
    /\ pc' = "proved"
    /\ UNCHANGED verifier
    /\ OthersUnchanged

\* TStrictlyLowerTriangular::verify on the proof of the prover, with the t of
\* the prover or another one, in a build with or without overflow checks
Call_TStrictlyLowerTriangular_verify ==
    /\ Proved("TStrictlyLowerTriangular::prove")
    /\ \E t \in 0 .. MaxT, overflow_checks \in BOOLEAN :
        /\ verifier' = TStrictlyLowerTriangular_verify(
                           args.ck, t, args.domain_k, args.domain_h,
                           args.row_commit, args.col_commit, prover.result.value,
                           args.fs_rng, overflow_checks)
        /\ args' = [ck |-> args.ck, t |-> args.t,
                    domain_k |-> args.domain_k, domain_h |-> args.domain_h,
                    row_poly |-> args.row_poly, col_poly |-> args.col_poly,
                    row_commit |-> args.row_commit, col_commit |-> args.col_commit,
                    fs_rng |-> args.fs_rng,
                    verifier_t |-> t, overflow_checks |-> overflow_checks]
    /\ result' = verifier'.result
    /\ op' = "TStrictlyLowerTriangular::verify"
    /\ pc' = "done"
    /\ UNCHANGED prover
    /\ OthersUnchanged

NextProof ==
    \/ Call_NonZeroOverK_prove
    \/ Call_NonZeroOverK_verify
    \/ Call_DLComparison_prove
    \/ Call_DLComparison_verify
    \/ Call_TStrictlyLowerTriangular_prove
    \/ Call_TStrictlyLowerTriangular_verify

SpecProof == InitProof /\ [][NextProof]_vars

----------------------------------------------------------------------------
(* Properties of the proofs of function relation *)

\* the polynomial p evaluates to zero at some element of the domain
HasZeroOn(domain, p) == \E k \in 1 .. Len(domain) : FrPolyEval(p, domain[k]) = 0

\* C13: NonZeroOverK::prove returns Err(FEvalIsZero), without producing a
\* proof or committing anything, whenever f evaluates to zero at some element
\* of the domain K.
C13_FEvalIsZero ==
    ( /\ pc = "proved"
      /\ op = "NonZeroOverK::prove"
      /\ HasZeroOn(args.domain, args.f.polynomial) )
    => /\ prover.result = Err("FEvalIsZero")
       /\ prover.steps = << >>

\* the committer key supports every polynomial of degree below the size of
\* the domain
KeySupports(ck, domain) == ck.supported_degree >= Len(domain) - 1

\* C14: for every f with no zero on K (and a committer key that supports the
\* polynomials over K), NonZeroOverK::prove builds g with g(x) = 1/f(x) for
\* every x in K, so that the inverse check 1 - f*g vanishes on all of K; the
\* proof it returns carries the commitment of g, and NonZeroOverK::verify on
\* that proof with the commitment of f returns Ok.
C14_NonZeroRoundTrip ==
    /\ ( /\ pc = "proved"
         /\ op = "NonZeroOverK::prove"
         /\ ~ HasZeroOn(args.domain, args.f.polynomial)
         /\ KeySupports(args.ck, args.domain) )
         => /\ prover.result.tag = "Ok"
            /\ Len(prover.oracles) = 1
            /\ \A k \in 1 .. Len(args.domain) :
                 /\ FrMul(FrPolyEval(args.f.polynomial, args.domain[k]),
                          FrPolyEval(prover.oracles[1].polynomial, args.domain[k])) = 1
                 /\ VOQueryFr("inverse_check",
                              <<FrPolyEval(args.f.polynomial, args.domain[k]),
                                FrPolyEval(prover.oracles[1].polynomial, args.domain[k])>>) = 0
            /\ prover.result.value.g_commit
                 = FrPolyEval(prover.oracles[1].polynomial, TauFr)
    /\ ( /\ pc = "done"
         /\ op = "NonZeroOverK::verify" )
         => verifier.result = Ok(<< >>)

\* f with the evaluations (1, 3, 3, 1) on a domain of four elements, proved
\* and verified
C14_Witness ==
    /\ pc = "done"
    /\ op = "NonZeroOverK::verify"
    /\ Len(args.domain) = 4
    /\ DomainFft(args.domain, args.f.polynomial) = <<1, 3, 3, 1>>
    /\ Degree(prover.oracles[1].polynomial) > 0
    /\ verifier.result = Ok(<< >>)

\* C15: TStrictlyLowerTriangular::prove returns Err(T2Large) exactly when
\* t > |H|: for every t > |H| it returns T2Large having only absorbed its
\* protocol name, before committing h or invoking any subprotocol, and for
\* t <= |H| it never returns T2Large.
C15_T2Large ==
    ( /\ pc = "proved"
      /\ op = "TStrictlyLowerTriangular::prove" )
    => /\ (prover.result = Err("T2Large")) <=> (args.t > Len(args.domain_h))
       /\ (args.t > Len(args.domain_h))
            => /\ prover.steps = <<"absorb">>
               /\ prover.oracles = << >>
       /\ (args.t <= Len(args.domain_h))
            => /\ Len(prover.steps) >= 2
               /\ prover.steps[2] = "PC::commit"

\* t = 5 over a domain H of four elements: T2Large
C15_Witness ==
    /\ pc = "proved"
    /\ op = "TStrictlyLowerTriangular::prove"
    /\ args.t = 5
    /\ Len(args.domain_h) = 4
    /\ prover.result = Err("T2Large")


\* the exponent of the row (coordinate 1) or column (coordinate 2) value of
\* the matrix at the k-th element of K
EntryLog(a, coordinate, k) ==
    DLog(a.domain_h,
         FrPolyEval(IF coordinate = 1 THEN a.row_poly.polynomial ELSE a.col_poly.polynomial,
                    a.domain_k[k]))

\* every entry of the matrix lies in a row r >= t and a column c < r
StrictlyLowerTriangularFrom(a) ==
    \A k \in 1 .. Len(a.domain_k) :
        /\ EntryLog(a, 1, k) >= a.t
        /\ EntryLog(a, 2, k) < EntryLog(a, 1, k)

ColumnMeetsRow(a) ==
    /\ \A k \in 1 .. Len(a.domain_k) : EntryLog(a, 2, k) <= EntryLog(a, 1, k)
    /\ \E k \in 1 .. Len(a.domain_k) : EntryLog(a, 2, k) = EntryLog(a, 1, k)

\* C17: if at some index of K the column value is not strictly below the row
\* value, here in the case the claim singles out, col_M(x) = row_M(x), then
\* TStrictlyLowerTriangular::prove (called with t <= |H| and a committer key
\* that supports the polynomials) does not return a proof: it returns
\* Err(FEvalIsZero), raised by a non-zero check inside DLComparison.
C17_FEvalIsZero ==
    ( /\ pc = "proved"
      /\ op = "TStrictlyLowerTriangular::prove"
      /\ args.t <= Len(args.domain_h)
      /\ KeySupports(args.ck, args.domain_k)
      /\ ColumnMeetsRow(args) )
    => /\ prover.result = Err("FEvalIsZero")
       /\ prover.steps[Len(prover.steps)] = "DLComparison::prove"

\* C18: soundness in t. Whenever prove followed by verify succeeds for
\* (t, row_M, col_M), every evaluation of row_M on K equals w^r with r >= t:
\* a row value w^r with r < t, outside the image of h, makes prove or verify
\* fail.
C18_SoundInT ==
    ( /\ pc = "done"
      /\ op = "TStrictlyLowerTriangular::verify"
      /\ args.verifier_t = args.t
      /\ prover.result.tag = "Ok"
      /\ verifier.result = Ok(<< >>) )
    => \A k \in 1 .. Len(args.domain_k) : EntryLog(args, 1, k) >= args.t

\* the last step a prover ran was a PC::commit, which failed
CommitFailed ==
    /\ pc = "proved"
    /\ prover.steps # << >>
    /\ prover.steps[Len(prover.steps)] = "PC::commit"

\* C19: a failure of the underlying commitment scheme inside a prover
\* (PC::commit in NonZeroOverK::prove, DLComparison::prove and
\* TStrictlyLowerTriangular::prove) is surfaced to the caller as Err(PCError)
\* and never as a panic.
C19_PCError == CommitFailed => prover.result = Err("PCError")

\* every item absorbed after the seed starts with the domain tag of a
\* subprotocol, ahead of any commitment absorbed with it
TagsFirst(rng) ==
    \A i \in 2 .. Len(rng) :
        rng[i][1] \in {TStrictlyLowerTriangular_PROTOCOL_NAME, DLComparison_PROTOCOL_NAME}

\* C20: prover and verifier absorb the same transcript. For
\* TStrictlyLowerTriangular (and the DLComparison it calls), starting from
\* transcripts created from the same seed, the ordered sequence of items
\* absorbed by verify equals the ordered sequence absorbed by prove on the
\* proof it produced, and each subprotocol's domain tag is absorbed before any
\* of its commitments on both sides.
C20_SameTranscript ==
    ( /\ pc = "done"
      /\ op = "TStrictlyLowerTriangular::verify"
      /\ args.verifier_t = args.t )
    => /\ verifier.fs_rng = prover.fs_rng
       /\ TagsFirst(prover.fs_rng)
       /\ TagsFirst(verifier.fs_rng)

\* TStrictlyLowerTriangular::prove has returned a proof (verify may have
\* followed)
TriangularProved ==
    /\ op \in {"TStrictlyLowerTriangular::prove", "TStrictlyLowerTriangular::verify"}
    /\ prover.result.tag = "Ok"

\* the commitments DLComparison took as f and as g: the first commitment of
\* the square checks on (f, f') and on (g, g')
ComparedAsF == prover.result.value.dl_proof.f_prime_square_proof.commitments[1]

ComparedAsG == prover.result.value.dl_proof.g_prime_square_proof.commitments[1]

NineChecks ==
    <<"f_prime_square_proof", "g_prime_square_proof", "s_prime_square_proof",
      "f_prime_product_proof", "h_proof", "nzk_f_prime_proof", "nzk_g_prime_proof",
      "nzk_s_prime_proof", "nzk_s_minus_one_proof">>

\* the checks the verifier ran, in the order it ran them
ChecksRun == SelectSeq(verifier.steps, LAMBDA x : x \in DLComparison_sub_proofs)

\* the position in NineChecks of the first forged sub-proof, 0 when none is
FirstForged ==
    IF args.forged = {} THEN 0
    ELSE CHOOSE i \in 1 .. Len(NineChecks) :
            /\ NineChecks[i] \in args.forged
            /\ \A j \in 1 .. i - 1 : NineChecks[j] \notin args.forged

DLComparisonVerified == pc = "done" /\ op = "DLComparison::verify"

\* C22: DLComparison::verify returns Ok if and only if all nine
\* sub-verifications succeed: the three square checks on (f, f'), (g, g'),
\* (s, s'), the product check on (f', s', g'), the GeoSeqTest on h and the four
\* NonZeroOverK checks on f', g', s' and s - 1; they run in that order, and on
\* the first failure (here: the first forged sub-proof) verify returns that
\* sub-verification's error without running the later ones.
C22_NineChecksInOrder ==
    DLComparisonVerified
    => /\ (verifier.result = Ok(<< >>)) <=> (args.forged = {})
       /\ (args.forged = {}) => ChecksRun = NineChecks
       /\ (args.forged # {})
            => /\ ChecksRun = SubSeq(NineChecks, 1, FirstForged)
               /\ verifier.result = Err("Check2Failed")

\* the square check on (s, s') and the non-zero check on g' forged: verify
\* stops at the third check
C22_Witness ==
    /\ DLComparisonVerified
    /\ args.forged = {"s_prime_square_proof", "nzk_g_prime_proof"}
    /\ ChecksRun = <<"f_prime_square_proof", "g_prime_square_proof", "s_prime_square_proof">>
    /\ verifier.result.tag = "Err"

\* DLComparison::prove has returned a proof (verify may have followed)
DLComparisonProved ==
    /\ op \in {"DLComparison::prove", "DLComparison::verify"}
    /\ prover.result.tag = "Ok"

\* the commitment to s - 1 the verifier derives from the proof:
\* 1 * commit(s) + (-1) * commit(1)
DerivedSMinusOne ==
    multi_scalar_mul(<<LabeledCommitment("s", prover.result.value.s_commit),
                       TestCommit(LabeledPolynomial("one_poly", <<1>>))>>,
                     <<1, FrSub(0, 1)>>)

\* C23: the commitment to s - 1 that DLComparison::verify derives on its own,
\* as 1*commit(s) + (-1)*commit(constant polynomial 1), equals the commitment
\* of the polynomial s(X) - 1 on which the prover ran NonZeroOverK (the first
\* commitment its inverse check is bound to), for every s; the proof carries
\* the commitments of s, f', g', s', h only, none of s - 1, and the verifier
\* accepts the unchanged proof.
C23_DerivedCommitment ==
    DLComparisonProved
    => /\ prover.oracles[1].label = "s"
       /\ DerivedSMinusOne
            = prover.result.value.nzk_s_minus_one_proof.zero_over_k_proof.commitments[1]
       /\ DerivedSMinusOne
            = FrSub(FrPolyEval(prover.oracles[1].polynomial, TauFr), 1)
       /\ {x \in DOMAIN prover.result.value : x \notin DLComparison_sub_proofs}
            = {"s_commit", "f_prime_commit", "g_prime_commit", "s_prime_commit", "h_commit"}
       /\ (pc = "done" /\ args.forged = {}) => verifier.result = Ok(<< >>)

\* a proof whose s is not constant, verified unchanged
C23_Witness ==
    /\ DLComparisonProved
    /\ pc = "done"
    /\ args.forged = {}
    /\ Degree(prover.oracles[1].polynomial) > 0
    /\ DerivedSMinusOne # prover.result.value.s_commit
    /\ verifier.result = Ok(<< >>)

\* fewer labels than max(mapping_vector) + 1 were handed over
TooFewLabels ==
    \E i \in 1 .. Len(vo.value.mapping_vector) :
        vo.value.mapping_vector[i] + 1 > Len(args.concrete_oracle_labels)

\* C24: every NewVO operation is total. NewVO::new on an empty mapping
\* vector, get_term_labels with fewer labels than max(mapping_vector) + 1 and
\* evaluate_from_concrete_evals with too few labels (so that the evaluation of
\* some (label, alpha_i * point) key is missing) each return an error value
\* instead of panicking or indexing out of range.
C24_NewVOTotal ==
    /\ ( /\ pc = "built"
         /\ op = "NewVO::new"
         /\ args.mapping_vector = << >> )
         => result.tag = "Err"
    /\ ( /\ pc = "done"
         /\ op \in {"NewVO::get_term_labels", "NewVO::evaluate_from_concrete_evals"}
         /\ TooFewLabels )
         => result.tag = "Err"


\* a call of TStrictlyLowerTriangular::prove that went on to build h
TriangularBuiltH ==
    /\ pc \in {"proved", "done"}
    /\ op \in {"TStrictlyLowerTriangular::prove", "TStrictlyLowerTriangular::verify"}
    /\ prover.oracles # << >>

\* the sum of the first n lengths, as a number
RECURSIVE LengthSum(_, _)
LengthSum(c_s, n) == IF n = 0 THEN 0 ELSE LengthSum(c_s, n - 1) + c_s[n]

\* w^t, w^(t+1), ..., w^(|H|-1), then zeros up to |K|
PaddedPowers(t, domain_k, domain_h) ==
    [k \in 1 .. Len(domain_k) |->
        IF k <= Len(domain_h) - t THEN Element(domain_h, t + k - 1) ELSE 0]

\* C25: for every t <= |H| <= |K| the evaluations on K of the h that
\* TStrictlyLowerTriangular builds are w^t, ..., w^(|H|-1) followed by zeros
\* up to |K|; the declared segments are (w^t, |H| - t) and a zero segment of
\* length |K| - (|H| - t) that is there exactly when that length is positive;
\* the lengths sum to |K|; the verifier derives the same ratio, starts and
\* lengths as the prover, so that its GeoSeqTest is run on the statement the
\* proof of the prover was issued for.
C25_PaddedSequence ==
    TriangularBuiltH =>
        LET n == Len(args.domain_h) - args.t
            pad == Len(args.domain_k) - n
            proved == TStrictlyLowerTriangular_prove_segments(args.t, args.domain_k, args.domain_h)
            checked == TStrictlyLowerTriangular_verify_segments(args.t, args.domain_k, args.domain_h)
        IN  /\ args.t <= Len(args.domain_h)
            /\ Len(args.domain_h) <= Len(args.domain_k)
            /\ DomainFft(args.domain_k, prover.oracles[1].polynomial)
                   = PaddedPowers(args.t, args.domain_k, args.domain_h)
            /\ proved = IF pad > 0
                        THEN [a_s |-> <<Element(args.domain_h, args.t), 0>>, c_s |-> <<n, pad>>]
                        ELSE [a_s |-> <<Element(args.domain_h, args.t)>>, c_s |-> <<n>>]
            /\ LengthSum(proved.c_s, Len(proved.c_s)) = Len(args.domain_k)
            /\ checked = proved
            /\ prover.result.tag = "Ok" =>
                /\ prover.result.value.geo_seq_proof.r = Element(args.domain_h, 1)
                /\ prover.result.value.geo_seq_proof.a_s = proved.a_s
                /\ prover.result.value.geo_seq_proof.c_s = proved.c_s
            /\ (pc = "done" /\ args.verifier_t = args.t) =>
                "SubsetOverK::verify" \in {verifier.steps[i] : i \in DOMAIN verifier.steps}

\* a proof verified for 0 < t < |H| < |K|: both segments are there
C25_Witness ==
    /\ TriangularBuiltH
    /\ pc = "done"
    /\ args.verifier_t = args.t
    /\ args.t > 0
    /\ args.t < Len(args.domain_h)
    /\ Len(args.domain_h) < Len(args.domain_k)
    /\ verifier.result = Ok(<< >>)


\* the GeoSeqTest proof for h inside the proof DLComparison::prove returned
DLComparisonHProof == prover.result.value.h_proof

\* C26: in DLComparison the prover and the verifier hand GeoSeqTest the same
\* parameters for h: the ratio delta with delta^2 = w, w the generator of H,
\* a first segment that starts at 1 and has length |H|, and a zero segment of
\* length |K| - |H| that is there exactly when |K| > |H|; the lengths sum to
\* |K| for every |H| <= |K|; the verifier's GeoSeqTest accepts the h_proof of
\* the prover when that proof is handed over unchanged.
C26_SameGeoSeqParameters ==
    DLComparisonProved =>
        LET proved == DLComparison_prove_segments(args.domain_k, args.domain_h)
            checked == DLComparison_verify_segments(args.domain_k, args.domain_h)
            pad == Len(args.domain_k) - Len(args.domain_h)
        IN  /\ Len(args.domain_h) <= Len(args.domain_k)
            /\ FrMul(DLComparisonHProof.r, DLComparisonHProof.r) = Element(args.domain_h, 1)
            /\ DLComparisonHProof.a_s = proved.a_s
            /\ DLComparisonHProof.c_s = proved.c_s
            /\ DLComparisonHProof.domain = args.domain_k
            /\ proved = IF pad > 0
                        THEN [a_s |-> <<1, 0>>, c_s |-> <<Len(args.domain_h), pad>>]
                        ELSE [a_s |-> <<1>>, c_s |-> <<Len(args.domain_h)>>]
            /\ LengthSum(proved.c_s, Len(proved.c_s)) = Len(args.domain_k)
            /\ checked = proved
            /\ (DLComparisonVerified /\ args.forged \cap {NineChecks[i] : i \in 1 .. 5} = {})
                => "nzk_f_prime_proof" \in {verifier.steps[i] : i \in DOMAIN verifier.steps}

\* a proof for |H| < |K| that the verifier accepted
C26_Witness ==
    /\ DLComparisonProved
    /\ DLComparisonVerified
    /\ Len(args.domain_h) < Len(args.domain_k)
    /\ Len(DLComparisonHProof.c_s) = 2
    /\ verifier.result = Ok(<< >>)


\* C27: TStrictlyLowerTriangular::verify called with t > |H| fails with the
\* declared error T2Large, like the prover, instead of panicking or computing
\* |H| - t with wrap-around.
C27_VerifierT2Large ==
    ( /\ pc = "done"
      /\ op = "TStrictlyLowerTriangular::verify"
      /\ args.verifier_t > Len(args.domain_h) )
    => verifier.result = Err("T2Large")


\* the lists of a ZeroOverK::prove call all have the length the virtual
\* oracle asks for, and position i of the commitments is the commitment, under
\* the same label, of position i of the oracles
ListsAligned(call) ==
    LET n == num_of_oracles(call.virtual_oracle)
    IN  /\ Len(call.concrete_oracles) = n
        /\ Len(call.commitments) = n
        /\ Len(call.rands) = n
        /\ Len(call.alphas) = n
        /\ \A i \in 1 .. n : call.commitments[i] = TestCommit(call.concrete_oracles[i])

\* the verifier hands over the commitments of the prover's oracles in the
\* prover's order, for the same virtual oracle, with the same shifts, all 1
SameOnVerifier(proved, checked) ==
    /\ checked.commitments = proved.commitments
    /\ checked.virtual_oracle = proved.virtual_oracle
    /\ checked.alphas = proved.alphas
    /\ \A i \in 1 .. Len(checked.alphas) : checked.alphas[i] = 1

\* the ZeroOverK calls of NonZeroOverK::prove on f and of NonZeroOverK::verify
\* on f_commit and the proof of that prover
NonZeroOverKAligned(ck, domain, f, f_commit) ==
    LET nz == NonZeroOverK_prove(ck, domain, f)
        concrete_oracles == <<f, nz.oracles[1]>>
        commits == PCCommitFr(ck, concrete_oracles).value
        proved == NonZeroOverK_prove_zero_over_k_call(concrete_oracles, commits,
                                                      PCCommitRands(commits))
        checked == NonZeroOverK_verify_zero_over_k_call(f_commit, nz.result.value)
    IN  nz.result.tag = "Ok" => ListsAligned(proved) /\ SameOnVerifier(proved, checked)

\* the five commitments the verifier of DLComparison labels from the proof
VerifierCommitments ==
    <<LabeledCommitment("s", prover.result.value.s_commit),
      LabeledCommitment("f_prime", prover.result.value.f_prime_commit),
      LabeledCommitment("g_prime", prover.result.value.g_prime_commit),
      LabeledCommitment("s_prime", prover.result.value.s_prime_commit),
      LabeledCommitment("h", prover.result.value.h_commit)>>

\* the ZeroOverK calls of DLComparison::prove in this state
ProverZeroOverKCalls ==
    DLComparison_prove_zero_over_k_calls(
        args.row_poly, args.col_poly, args.row_commit, args.col_commit,
        prover.oracles, PCCommitFr(args.ck, prover.oracles).value)

\* the ZeroOverK calls of DLComparison::verify on the proof of this state
VerifierZeroOverKCalls ==
    DLComparison_verify_zero_over_k_calls(args.row_commit, args.col_commit,
                                          VerifierCommitments)

\* a proof of DLComparison as the prover returned it: not yet verified, or
\* handed to the verifier with no sub-proof forged
DLComparisonUnforged ==
    /\ DLComparisonProved
    /\ (pc = "proved" \/ args.forged = {})

\* C28: in every nested ZeroOverK call made by DLComparison and NonZeroOverK
\* the prover's lists of oracles, commitments, randomness and shifts all have
\* the length the virtual oracle's number of oracles, position i of each list
\* refers to the same oracle, the verifier hands over commitments to the same
\* oracles in the same order with the same shifts (all 1), and DLComparison
\* hands over empty randomness for every oracle.
C28_ListsAligned ==
    /\ DLComparisonUnforged =>
        /\ \A i \in 1 .. 4 :
            /\ ListsAligned(ProverZeroOverKCalls[i])
            /\ SameOnVerifier(ProverZeroOverKCalls[i], VerifierZeroOverKCalls[i])
            /\ \A j \in 1 .. Len(ProverZeroOverKCalls[i].rands) :
                ProverZeroOverKCalls[i].rands[j] = Empty
        /\ \A i \in 2 .. 4 :
            NonZeroOverKAligned(args.ck, args.domain_k, prover.oracles[i],
                                VerifierCommitments[i])
        /\ NonZeroOverKAligned(
               args.ck, args.domain_k,
               LabeledPolynomial("s_minus_one",
                                 FrPolySub(prover.oracles[1].polynomial, <<1>>)),
               LabeledCommitment("s_minus_one", DerivedSMinusOne))
    /\ (op \in {"NonZeroOverK::prove", "NonZeroOverK::verify"} /\ prover.result.tag = "Ok")
        => NonZeroOverKAligned(args.ck, args.domain, args.f, args.f_commit)

\* a proof of DLComparison whose product check is over three oracles with
\* three distinct commitments, verified
C28_Witness ==
    /\ DLComparisonUnforged
    /\ DLComparisonVerified
    /\ args.forged = {}
    /\ Cardinality({ProverZeroOverKCalls[4].commitments[i].commitment : i \in 1 .. 3}) = 3
    /\ verifier.result = Ok(<< >>)


\* the run of DLComparison::verify of this state made again on the transcript
\* of the tests and with the h_commit the prover returned, all else the same
ReferenceVerify ==
    DLComparison_verify(args.ck, args.domain_k, args.domain_h,
                        args.row_commit, args.col_commit,
                        [args.proof EXCEPT !.h_commit = prover.result.value.h_commit],
                        from_seed(Seed))

\* C29: the transcript handed to DLComparison is write-only.
\* DLComparison::verify absorbs into fs_rng exactly once, the protocol name
\* and then the five commitments s, f', g', s', h of the proof, and never
\* draws from it: what it leaves behind is the incoming transcript with that
\* one item appended, and two runs that differ only in the incoming
\* transcript or in proof.h_commit return the same result and run the same
\* checks.
C29_WriteOnlyTranscript ==
    DLComparisonVerified
    => /\ verifier.fs_rng
            = Append(args.verifier_fs_rng,
                     <<DLComparison_PROTOCOL_NAME,
                       args.proof.s_commit, args.proof.f_prime_commit,
                       args.proof.g_prime_commit, args.proof.s_prime_commit,
                       args.proof.h_commit>>)
       /\ Len(SelectSeq(verifier.steps, LAMBDA x : x = "absorb")) = 1
       /\ verifier.steps[1] = "absorb"
       /\ verifier.result = ReferenceVerify.result
       /\ verifier.steps = ReferenceVerify.steps

\* a run on a transcript that had absorbed something before, with another
\* h_commit than that of the prover, that accepted the proof
C29_Witness ==
    /\ DLComparisonVerified
    /\ args.verifier_fs_rng # from_seed(Seed)
    /\ args.proof.h_commit # prover.result.value.h_commit
    /\ args.forged = {}
    /\ verifier.result = Ok(<< >>)


\* the linear combination with every term that is not a polynomial label
\* removed
WithoutConstantTerms(lin) ==
    [label |-> lin.label,
     terms |-> SelectSeq(lin.terms, LAMBDA x : x.term.kind = "PolyLabel")]

\* C30: in get_commitments_lc and get_commitments_lc_with_rands a term of the
\* linear combination that is not a polynomial label (LCTerm::One) contributes
\* the identity: what is returned, the commitment and the randomness or the
\* error, is what is returned for the same linear combination with every such
\* term removed, whatever the coefficient of the term.
C30_ConstantTermIsIdentity ==
    /\ Called("get_commitments_lc")
        => result = get_commitments_lc(commitments, WithoutConstantTerms(lc))
    /\ Called("get_commitments_lc_with_rands")
        => result = get_commitments_lc_with_rands(commitments, hiding_rands,
                                                  WithoutConstantTerms(lc))

\* a linear combination of a polynomial label and a constant term with the
\* coefficient -1, combined with randomness
C30_Witness ==
    /\ Called("get_commitments_lc_with_rands")
    /\ \E k \in 1 .. Len(lc.terms) : lc.terms[k].term = LCTermOne /\ lc.terms[k].coef = 2
    /\ \E k \in 1 .. Len(lc.terms) : lc.terms[k].term.kind = "PolyLabel"
    /\ result.tag = "Ok"
    /\ result.value.commitment # Empty
    /\ result.value.randomness # Empty

====
